---- MODULE Spec2Model ----
(***************************************************************************)
(* Model of the d20 dice library: the seedable Roller, the fluent          *)
(* RollBuilder with advantage/disadvantage, the legacy dice-notation       *)
(* entry point, the outcome formatter and the Actor's skill checks.        *)
(* Strings are sequences of one-character strings, so that lowercasing,    *)
(* parsing and formatting are computed character by character.             *)
(***************************************************************************)
EXTENDS Integers, Sequences, FiniteSets, TLC

VARIABLES
    rng,     \* rng[r]: generator state of Roller r (Roller.rng)
    rb,      \* the RollBuilder under construction, or NoBuilder
    actor,   \* the Actor (id, hit points, armour class, modifiers, attributes)
    ret,     \* what the most recent call returned
    hist,    \* hist[r]: the roll calls made on Roller r with their results
    ab,      \* the ActorBuilder, or NoActorBuilder
    heap,    \* which map and backing array the builder and the actor share
    conc     \* two callers in the middle of a Roll each, or NoCallers

vars == <<rng, rb, actor, ret, hist, ab, heap, conc>>

(***************************************************************************)
(* Bounds of the model.                                                    *)
(***************************************************************************)
MaxCount == 2      \* largest rollCount given to Dice
MaxMods  == 2      \* longest modifier list of a builder
MaxBonus == 2      \* largest |bonus| given to D100SkillCheck
MaxCalls == 2      \* calls recorded per Roller in the reproducibility runs
\* current HP is followed while it stays within -MaxHPDrift..MaxHPDrift
MaxHPDrift == 6
\* combat modifiers held by a builder or an actor
MaxCombatMods == 4
\* combat modifiers of an actor whose attack rolls are followed
MaxAttackMods == 3
\* attribute values are followed while within -MaxAttrValue..MaxAttrValue
MaxAttrValue == 3
\* longest actor name given to NewActor
MaxIDLen == 4

(***************************************************************************)
(* Strings.                                                                *)
(***************************************************************************)
UpperChars == <<"A","B","C","D","E","F","G","H","I","J","K","L","M",
                "N","O","P","Q","R","S","T","U","V","W","X","Y","Z">>
LowerChars == <<"a","b","c","d","e","f","g","h","i","j","k","l","m",
                "n","o","p","q","r","s","t","u","v","w","x","y","z">>
DigitChars == <<"0","1","2","3","4","5","6","7","8","9">>

\* strings.ToLower on one character
LowerChar(c) ==
    IF \E i \in 1..26 : UpperChars[i] = c
    THEN LowerChars[CHOOSE i \in 1..26 : UpperChars[i] = c]
    ELSE c

\* strings.ToLower
ToLower(s) == [i \in 1..Len(s) |-> LowerChar(s[i])]

RECURSIVE NatToStr(_)
NatToStr(n) ==
    IF n < 10 THEN <<DigitChars[n + 1]>>
    ELSE NatToStr(n \div 10) \o <<DigitChars[(n % 10) + 1]>>

\* fmt.Sprintf("%d", n) / strconv.Itoa
Itoa(n) == IF n < 0 THEN <<"-">> \o NatToStr(-n) ELSE NatToStr(n)

\* strings.Join
RECURSIVE Join(_, _)
Join(parts, sep) ==
    IF Len(parts) = 0 THEN <<>>
    ELSE IF Len(parts) = 1 THEN parts[1]
    ELSE parts[1] \o sep \o Join(Tail(parts), sep)

RECURSIVE SumSeq(_)
SumSeq(s) == IF Len(s) = 0 THEN 0 ELSE s[1] + SumSeq(Tail(s))

Max(a, b) == IF a >= b THEN a ELSE b
Min(a, b) == IF a <= b THEN a ELSE b

(***************************************************************************)
(* The generator behind a Roller.  math/rand is a deterministic            *)
(* generator: its state after seeding is a function of the seed, every     *)
(* Intn call advances the state once and returns a value in [0, n).        *)
(* It is modelled by a full-period linear congruential generator.          *)
(***************************************************************************)
RngModulus    == 64
RngMultiplier == 17
RngIncrement  == 27
RngShift      == 4

\* NewSource seeded from a clock that advances with every call made so far
NewSourceClock(seed) == (seed + Len(hist[1].calls)) % RngModulus

\* rand.NewSource(seed)
NewSource(seed) == seed % RngModulus

\* one step of the generator
RngStep(s) == (RngMultiplier * s + RngIncrement) % RngModulus

\* Intn with the upper bound included: a value in [0, n]
IntnInclusive(g, n) ==
    LET s2 == RngStep(g.s)
    IN  [val |-> (s2 \div RngShift) % (n + 1), g |-> [s |-> s2, n |-> g.n + 1]]

\* rng.Intn(n) on the generator g = [s |-> state, n |-> Intn calls so far]:
\* the value drawn and the generator afterwards
Intn(g, n) ==
    LET s2 == RngStep(g.s)
    IN  [val |-> (s2 \div RngShift) % n, g |-> [s |-> s2, n |-> g.n + 1]]

(***************************************************************************)
(* Modifier (modifier.go).                                                 *)
(***************************************************************************)
\* NewModifier: the reason is lowercased
NewModifier(reason, value) == [Value |-> value, Reason |-> ToLower(reason)]

RECURSIVE ModifierTotalFrom(_, _)
ModifierTotalFrom(mods, acc) ==
    IF Len(mods) = 0 THEN acc
    ELSE ModifierTotalFrom(Tail(mods), acc + mods[1].Value)

\* modifierTotal = mod.Value instead of += : only the last modifier counts
ModifierTotalLast(mods) == IF Len(mods) = 0 THEN 0 ELSE mods[Len(mods)].Value

\* Roll: modifierTotal := 0; for _, mod := range rb.modifiers { modifierTotal += mod.Value }
ModifierTotal(mods) == ModifierTotalFrom(mods, 0)

(***************************************************************************)
(* RollOutcome and its formatter (roll_outcome.go).                        *)
(***************************************************************************)
\* the modifier rendered as "+3 strength" or "-2 exhaustion"
FormatModifier(mod) ==
    LET sign == IF mod.Value < 0 THEN <<>> ELSE <<"+">>
    IN  sign \o Itoa(mod.Value) \o <<" ">> \o ToLower(mod.Reason)

\* formatRollDetail
formatRollDetail(rollCount, dieFaces, rolls, modifiers, finalValue) ==
    LET head == <<"R","o","l","l","e","d"," ">> \o Itoa(rollCount) \o <<"d">>
                  \o Itoa(dieFaces) \o <<".",".",".">>
        dice == IF Len(rolls) > 0
                THEN <<" ">> \o Join([i \in 1..Len(rolls) |-> Itoa(rolls[i])], <<",", " ">>)
                ELSE <<>>
        mods == IF Len(modifiers) > 0
                THEN <<";", " ">> \o Join([i \in 1..Len(modifiers) |->
                                              FormatModifier(modifiers[i])], <<",", " ">>)
                ELSE <<>>
    IN  head \o dice \o mods
          \o <<";"," ","*","R","e","s","u","l","t",":"," ">> \o Itoa(finalValue) \o <<"*">>

\* NewRollOutcome
NewRollOutcome(rollCount, dieFaces, rolls, modifiers, finalValue) ==
    [Value     |-> finalValue,
     DiceRolls |-> rolls,
     Detail    |-> formatRollDetail(rollCount, dieFaces, rolls, modifiers, finalValue)]

\* RollOutcome{}
ZeroOutcome == [Value |-> 0, DiceRolls |-> <<>>, Detail |-> <<>>]

(***************************************************************************)
(* RollBuilder (roller.go).                                                *)
(***************************************************************************)
AdvantageTypes == {"Normal", "Advantage", "Disadvantage"}

NoBuilder == [roller |-> 0, rollCount |-> 0, dieFaces |-> 0,
              modifiers |-> <<>>, advantageType |-> "none"]

\* Roller.Dice
NewRollBuilder(r, rollCount, dieFaces) ==
    [roller |-> r, rollCount |-> rollCount, dieFaces |-> dieFaces,
     modifiers |-> <<>>, advantageType |-> "Normal"]

\* rb.WithAdvantage()
WithAdvantageOp(b) == [b EXCEPT !.advantageType = "Advantage"]

\* rb.WithDisadvantage()
WithDisadvantageOp(b) == [b EXCEPT !.advantageType = "Disadvantage"]

\* Normal as a default that yields to a mode already chosen
NormalOpKeepsMode(b) == b

\* rb.Normal()
NormalOp(b) == [b EXCEPT !.advantageType = "Normal"]

\* Normal mode: one draw per die, every die counts
RECURSIVE RollNormal(_, _, _, _)
RollNormal(g, faces, k, acc) ==
    IF k = 0 THEN [rolls |-> acc.rolls, used |-> acc.used, g |-> g]
    ELSE LET d == Intn(g, faces)
         IN  RollNormal(d.g, faces, k - 1,
                        [rolls |-> Append(acc.rolls, d.val + 1),
                         used  |-> Append(acc.used, d.val + 1)])

\* the Disadvantage branch copied from Advantage without changing max to min
PickOfPairAlwaysMax(mode, roll1, roll2) == Max(roll1, roll2)

\* the die of a pair that counts towards the total
PickOfPair(mode, roll1, roll2) ==
    IF mode = "Advantage" THEN Max(roll1, roll2) ELSE Min(roll1, roll2)

\* Advantage / Disadvantage: two draws per die, both kept, one counts
RECURSIVE RollTwice(_, _, _, _, _)
RollTwice(g, faces, k, mode, acc) ==
    IF k = 0 THEN [rolls |-> acc.rolls, used |-> acc.used, g |-> g]
    ELSE LET d1 == Intn(g, faces)
             d2 == Intn(d1.g, faces)
         IN  RollTwice(d2.g, faces, k - 1, mode,
                       [rolls |-> acc.rolls \o <<d1.val + 1, d2.val + 1>>,
                        used  |-> Append(acc.used,
                                         PickOfPair(mode, d1.val + 1, d2.val + 1))])

\* the switch on rb.advantageType with every case rolling one draw per die
RollDiceOnce(g, b) ==
    RollNormal(g, b.dieFaces, b.rollCount, [rolls |-> <<>>, used |-> <<>>])

\* Advantage and Disadvantage storing the die that counts first in its pair
RollDiceKeptFirst(g, b) ==
    IF b.advantageType = "Normal"
    THEN RollNormal(g, b.dieFaces, b.rollCount, [rolls |-> <<>>, used |-> <<>>])
    ELSE LET d == RollTwice(g, b.dieFaces, b.rollCount, b.advantageType,
                            [rolls |-> <<>>, used |-> <<>>])
         IN  [d EXCEPT !.rolls =
                 [i \in 1..Len(d.rolls) |->
                     IF i % 2 = 1 THEN d.used[(i + 1) \div 2]
                     ELSE d.rolls[i - 1] + d.rolls[i] - d.used[i \div 2]]]

\* the switch on rb.advantageType
RollDice(g, b) ==
    IF b.advantageType = "Normal"
    THEN RollNormal(g, b.dieFaces, b.rollCount, [rolls |-> <<>>, used |-> <<>>])
    ELSE RollTwice(g, b.dieFaces, b.rollCount, b.advantageType,
                   [rolls |-> <<>>, used |-> <<>>])

\* Roll without the dieFaces check: a die of 0 faces is rolled as a die of 1 face
RollBuilderRollClamped(b, g) ==
    IF b.rollCount = 0
    THEN [err |-> "rollCount must be greater than 0", outcome |-> ZeroOutcome,
          used |-> <<>>, g |-> g]
    ELSE LET d == RollDice(g, [b EXCEPT !.dieFaces = Max(1, b.dieFaces)])
         IN  [err     |-> "nil",
              outcome |-> NewRollOutcome(b.rollCount, b.dieFaces, d.rolls, b.modifiers,
                                         SumSeq(d.used) + ModifierTotal(b.modifiers)),
              used    |-> d.used,
              g       |-> d.g]

\* RollBuilder.Roll on the generator g: error, outcome, the dice that were
\* added to diceTotal, and the generator afterwards
RollBuilderRoll(b, g) ==
    IF b.rollCount = 0
    THEN [err |-> "rollCount must be greater than 0", outcome |-> ZeroOutcome,
          used |-> <<>>, g |-> g]
    ELSE IF b.dieFaces = 0
    THEN [err |-> "dieFaces must be greater than 0", outcome |-> ZeroOutcome,
          used |-> <<>>, g |-> g]
    ELSE LET d == RollDice(g, b)
             diceTotal == SumSeq(d.used)
             modifierTotal == ModifierTotal(b.modifiers)
         IN  [err     |-> "nil",
              outcome |-> NewRollOutcome(b.rollCount, b.dieFaces, d.rolls,
                                         b.modifiers, diceTotal + modifierTotal),
              used    |-> d.used,
              g       |-> d.g]

(***************************************************************************)
(* The dice-notation entry point Roller.Roll(expr) and its Result.         *)
(***************************************************************************)
IsDigit(c) == \E i \in 1..10 : DigitChars[i] = c
DigitVal(c) == (CHOOSE i \in 1..10 : DigitChars[i] = c) - 1

\* unicode.IsSpace on the characters of the model
IsSpace(c) == c \in {" ", "\t", "\n"}

\* strings.TrimSpace
RECURSIVE TrimLeft(_)
TrimLeft(s) == IF Len(s) > 0 /\ IsSpace(s[1]) THEN TrimLeft(Tail(s)) ELSE s
RECURSIVE TrimRight(_)
TrimRight(s) ==
    IF Len(s) > 0 /\ IsSpace(s[Len(s)]) THEN TrimRight(SubSeq(s, 1, Len(s) - 1)) ELSE s
TrimSpace(s) == TrimRight(TrimLeft(s))

\* length of the longest prefix of digits: what a greedy \d+ consumes
RECURSIVE DigitPrefixLen(_)
DigitPrefixLen(s) ==
    IF Len(s) > 0 /\ IsDigit(s[1]) THEN 1 + DigitPrefixLen(Tail(s)) ELSE 0

\* strconv.Atoi on a string of digits
RECURSIVE AtoiFrom(_, _)
AtoiFrom(s, acc) ==
    IF Len(s) = 0 THEN acc ELSE AtoiFrom(Tail(s), acc * 10 + DigitVal(s[1]))
Atoi(s) == AtoiFrom(s, 0)

NoMatch == [ok |-> FALSE, count |-> <<>>, sides |-> <<>>, sign |-> <<>>, mod |-> <<>>]

\* the pattern without its end anchor: ^(\d+)d(\d+)(([+-])(\d+))? matches a
\* prefix and ignores what follows it
diceRegexUnanchored(expr) ==
    LET n1    == DigitPrefixLen(expr)
        rest1 == SubSeq(expr, n1 + 2, Len(expr))
        n2    == DigitPrefixLen(rest1)
        rest2 == SubSeq(rest1, n2 + 1, Len(rest1))
        n3    == IF Len(rest2) >= 2 /\ rest2[1] \in {"+", "-"}
                 THEN DigitPrefixLen(Tail(rest2)) ELSE 0
    IN  IF n1 = 0 \/ Len(expr) < n1 + 1 THEN NoMatch
        ELSE IF expr[n1 + 1] # "d" \/ n2 = 0 THEN NoMatch
        ELSE IF n3 = 0
        THEN [ok |-> TRUE, count |-> SubSeq(expr, 1, n1), sides |-> SubSeq(rest1, 1, n2),
              sign |-> <<>>, mod |-> <<>>]
        ELSE [ok |-> TRUE, count |-> SubSeq(expr, 1, n1), sides |-> SubSeq(rest1, 1, n2),
              sign |-> <<rest2[1]>>, mod |-> SubSeq(rest2, 2, n3 + 1)]

\* diceRegex.FindStringSubmatch for ^(\d+)d(\d+)(([+-])(\d+))?$ :
\* the groups 1, 2, 4 and 5 (group 3 is empty exactly when group 4 is)
diceRegex(expr) ==
    LET n1    == DigitPrefixLen(expr)
        rest1 == SubSeq(expr, n1 + 2, Len(expr))
        n2    == DigitPrefixLen(rest1)
        rest2 == SubSeq(rest1, n2 + 1, Len(rest1))
    IN  IF n1 = 0 \/ Len(expr) < n1 + 1 THEN NoMatch
        ELSE IF expr[n1 + 1] # "d" \/ n2 = 0 THEN NoMatch
        ELSE IF Len(rest2) = 0
        THEN [ok |-> TRUE, count |-> SubSeq(expr, 1, n1), sides |-> SubSeq(rest1, 1, n2),
              sign |-> <<>>, mod |-> <<>>]
        ELSE IF rest2[1] \in {"+", "-"} /\ Len(rest2) >= 2
                /\ DigitPrefixLen(Tail(rest2)) = Len(rest2) - 1
        THEN [ok |-> TRUE, count |-> SubSeq(expr, 1, n1), sides |-> SubSeq(rest1, 1, n2),
              sign |-> <<rest2[1]>>, mod |-> Tail(rest2)]
        ELSE NoMatch

\* the drawing loop of roll: numDice draws of rng.Intn(numSides) + 1
RECURSIVE rollLoop(_, _, _, _)
rollLoop(g, numSides, k, rolls) ==
    IF k = 0 THEN [rolls |-> rolls, g |-> g]
    ELSE LET d == Intn(g, numSides)
         IN  rollLoop(d.g, numSides, k - 1, Append(rolls, d.val + 1))

\* Result{}
ZeroResult == [Total |-> 0, Rolls |-> <<>>]

\* roll matching the expression as given, without strings.TrimSpace
rollNoTrim(g, e) ==
    LET expr    == ToLower(e)
        matches == diceRegex(expr)
    IN  IF ~matches.ok
        THEN [err |-> "invalid dice expression", result |-> ZeroResult, g |-> g]
        ELSE LET numDice  == Atoi(matches.count)
                 numSides == Atoi(matches.sides)
                 modifier == IF matches.sign = <<>> THEN 0
                             ELSE IF matches.sign = <<"-">> THEN -Atoi(matches.mod)
                             ELSE Atoi(matches.mod)
             IN  IF numDice < 1
                 THEN [err |-> "invalid number of dice", result |-> ZeroResult, g |-> g]
                 ELSE IF numSides < 1
                 THEN [err |-> "invalid number of sides", result |-> ZeroResult, g |-> g]
                 ELSE LET d == rollLoop(g, numSides, numDice, <<>>)
                      IN  [err    |-> "nil",
                           result |-> [Total |-> SumSeq(d.rolls) + modifier,
                                       Rolls |-> d.rolls],
                           g      |-> d.g]

\* roll(rng, expr)
roll(g, e) ==
    LET expr    == TrimSpace(ToLower(e))
        matches == diceRegex(expr)
    IN  IF ~matches.ok
        THEN [err |-> "invalid dice expression", result |-> ZeroResult, g |-> g]
        ELSE LET numDice  == Atoi(matches.count)
                 numSides == Atoi(matches.sides)
                 modifier == IF matches.sign = <<>> THEN 0
                             ELSE IF matches.sign = <<"-">> THEN -Atoi(matches.mod)
                             ELSE Atoi(matches.mod)
             IN  IF numDice < 1
                 THEN [err |-> "invalid number of dice", result |-> ZeroResult, g |-> g]
                 ELSE IF numSides < 1
                 THEN [err |-> "invalid number of sides", result |-> ZeroResult, g |-> g]
                 ELSE LET d == rollLoop(g, numSides, numDice, <<>>)
                      IN  [err    |-> "nil",
                           result |-> [Total |-> SumSeq(d.rolls) + modifier,
                                       Rolls |-> d.rolls],
                           g      |-> d.g]

(***************************************************************************)
(* Actor (actor.go).                                                       *)
(***************************************************************************)
IsAlphaNum(c) == IsDigit(c) \/ \E i \in 1..26 : LowerChars[i] = c

\* nonAlphaNumeric.ReplaceAllString(id, "_"): every run of characters
\* outside [a-z0-9] becomes one underscore
RECURSIVE ReplaceRuns(_, _)
ReplaceRuns(s, inRun) ==
    IF Len(s) = 0 THEN <<>>
    ELSE IF IsAlphaNum(s[1]) THEN <<s[1]>> \o ReplaceRuns(Tail(s), FALSE)
    ELSE IF inRun THEN ReplaceRuns(Tail(s), TRUE)
    ELSE <<"_">> \o ReplaceRuns(Tail(s), TRUE)

\* strings.Trim(id, "_")
RECURSIVE TrimUnderscores(_)
TrimUnderscores(s) ==
    IF Len(s) > 0 /\ s[1] = "_" THEN TrimUnderscores(Tail(s))
    ELSE IF Len(s) > 0 /\ s[Len(s)] = "_" THEN TrimUnderscores(SubSeq(s, 1, Len(s) - 1))
    ELSE s

\* normalizeID without strings.Trim(id, "_")
normalizeIDNoTrim(id) == ReplaceRuns(ToLower(id), FALSE)

\* normalizeID
normalizeID(id) == TrimUnderscores(ReplaceRuns(ToLower(id), FALSE))

\* NewActor(id, hp, ac).Build(): the actor, or the error of Build
BuildActor(id, hp, ac) ==
    IF hp <= 0 THEN [err |-> "hp must be greater than 0"]
    ELSE IF ac <= 0 THEN [err |-> "ac must be greater than 0"]
    ELSE [err |-> "nil",
          actor |-> [id |-> normalizeID(id), maxHP |-> hp, currentHP |-> hp, ac |-> ac,
                     initiative |-> 0, combatModifiers |-> <<>>, attributes |-> <<>>]]

\* a nil *Actor
NilActor == [nil |-> TRUE]

\* no ActorBuilder has been made
NoActorBuilder == [none |-> TRUE]

\* NewActor(id, hp, ac)
NewActorOp(id, hp, ac) ==
    [id |-> normalizeID(id), maxHP |-> hp, ac |-> ac, initiative |-> 0,
     combatModifiers |-> <<>>, attributes |-> <<>>]

\* ActorBuilder.WithAttribute
WithAttributeOp(b, key, value) ==
    LET k == ToLower(key)
    IN  [b EXCEPT !.attributes =
            [x \in (DOMAIN b.attributes) \cup {k} |->
                IF x = k THEN value ELSE b.attributes[x]]]

\* Build that validates the hit points only
BuildNoACCheck(b) ==
    IF b.maxHP <= 0
    THEN [err |-> "hp must be greater than 0", actor |-> NilActor]
    ELSE [err |-> "nil",
          actor |-> [id |-> b.id, maxHP |-> b.maxHP, currentHP |-> b.maxHP, ac |-> b.ac,
                     initiative |-> b.initiative,
                     combatModifiers |-> b.combatModifiers,
                     attributes |-> b.attributes]]

\* ActorBuilder.Build: the *Actor and the error
BuildOp(b) ==
    IF b.maxHP <= 0
    THEN [err |-> "hp must be greater than 0", actor |-> NilActor]
    ELSE IF b.ac <= 0
    THEN [err |-> "ac must be greater than 0", actor |-> NilActor]
    ELSE [err |-> "nil",
          actor |-> [id |-> b.id, maxHP |-> b.maxHP, currentHP |-> b.maxHP, ac |-> b.ac,
                     initiative |-> b.initiative,
                     combatModifiers |-> b.combatModifiers,
                     attributes |-> b.attributes]]

\* the builder and the actor share neither map nor backing array; the
\* capacities of their combatModifiers slices
NoSharing == [attrsShared |-> FALSE, cmShared |-> FALSE, abCap |-> 0, actorCap |-> 0]

\* capacity of the array that append allocates when one element does not fit
GrowCap(cap) == IF cap = 0 THEN 1 ELSE cap + cap

\* append(mine, m) for a slice of capacity cap whose backing array is, when
\* `shared`, also the backing array of the slice `other`: within capacity the
\* element is written in place (into `other` too when it reaches that far),
\* otherwise the slice moves to a new array
SliceAppend(mine, cap, other, shared, m) ==
    IF Len(mine) < cap
    THEN [mine   |-> Append(mine, m),
          cap    |-> cap,
          other  |-> IF shared /\ Len(other) > Len(mine)
                     THEN [other EXCEPT ![Len(mine) + 1] = m] ELSE other,
          shared |-> shared]
    ELSE [mine |-> Append(mine, m), cap |-> GrowCap(cap), other |-> other,
          shared |-> FALSE]

\* SetHP storing the nearest value of the range instead of failing
SetHPClamped(a, hp) ==
    [err |-> "nil",
     actor |-> [a EXCEPT !.currentHP = IF hp < 0 THEN 0
                                       ELSE IF hp > a.maxHP THEN a.maxHP ELSE hp]]

\* Actor.SetHP: the error and the actor afterwards
SetHPOp(a, hp) ==
    IF hp < 0 THEN [err |-> "hp cannot be negative", actor |-> a]
    ELSE IF hp > a.maxHP THEN [err |-> "hp cannot exceed max HP", actor |-> a]
    ELSE [err |-> "nil", actor |-> [a EXCEPT !.currentHP = hp]]

\* SetMaxHP that also sets the current HP to the new maximum
SetMaxHPHeals(a, maxHP) ==
    IF maxHP <= 0 THEN [err |-> "max hp must be greater than 0", actor |-> a]
    ELSE [err |-> "nil", actor |-> [a EXCEPT !.maxHP = maxHP, !.currentHP = maxHP]]

\* Actor.SetMaxHP: the error and the actor afterwards
SetMaxHPOp(a, maxHP) ==
    IF maxHP <= 0 THEN [err |-> "max hp must be greater than 0", actor |-> a]
    ELSE [err |-> "nil",
          actor |-> [a EXCEPT !.maxHP = maxHP,
                              !.currentHP = IF a.currentHP > maxHP
                                            THEN maxHP ELSE a.currentHP]]

\* Actor.SubHP
SubHPOp(a, damage) ==
    [a EXCEPT !.currentHP = IF a.currentHP - damage < 0 THEN 0
                            ELSE a.currentHP - damage]

\* Actor.AddHP
AddHPOp(a, amount) ==
    [a EXCEPT !.currentHP = IF a.currentHP + amount > a.maxHP THEN a.maxHP
                            ELSE a.currentHP + amount]

\* Actor.ResetHP
ResetHPOp(a) == [a EXCEPT !.currentHP = a.maxHP]

\* Actor.IsKnockedOut
IsKnockedOutOp(a) == a.currentHP = 0

\* Actor.SetAC: the error and the actor afterwards
SetACOp(a, ac) ==
    IF ac <= 0 THEN [err |-> "ac must be greater than 0", actor |-> a]
    ELSE [err |-> "nil", actor |-> [a EXCEPT !.ac = ac]]

\* RemoveCombatModifier dropping the first matching modifier only
RemoveFirstCombatModifier(mods, reason) ==
    LET hits == { i \in 1..Len(mods) : mods[i].Reason = ToLower(reason) }
    IN  IF hits = {} THEN mods
        ELSE LET f == CHOOSE i \in hits : \A j \in hits : i <= j
             IN  SubSeq(mods, 1, f - 1) \o SubSeq(mods, f + 1, Len(mods))

\* Actor.RemoveCombatModifier: the modifiers kept, in order
RemoveCombatModifierOp(mods, reason) ==
    SelectSeq(mods, LAMBDA m : m.Reason # ToLower(reason))

\* Actor.GetCombatModifiers: a new slice with the same elements
GetCombatModifiersOp(a) == [i \in 1..Len(a.combatModifiers) |-> a.combatModifiers[i]]

\* Attribute reading the map without the ok flag: a missing key reads as 0
AttributeOrZero(a, key) ==
    LET k == ToLower(key)
    IN  [value |-> IF k \in DOMAIN a.attributes THEN a.attributes[k] ELSE 0,
         exists |-> TRUE]

\* Actor.Attribute
Attribute(a, key) ==
    LET k == ToLower(key)
    IN  IF k \in DOMAIN a.attributes
        THEN [value |-> a.attributes[k], exists |-> TRUE]
        ELSE [value |-> 0, exists |-> FALSE]

\* SetAttribute storing the key as given
SetAttributeRawKey(a, key, value) ==
    [a EXCEPT !.attributes =
        [x \in (DOMAIN a.attributes) \cup {key} |->
            IF x = key THEN value ELSE a.attributes[x]]]

\* Actor.SetAttribute
SetAttributeOp(a, key, value) ==
    LET k == ToLower(key)
    IN  [a EXCEPT !.attributes =
            [x \in (DOMAIN a.attributes) \cup {k} |->
                IF x = k THEN value ELSE a.attributes[x]]]

\* Actor.RemoveAttribute
RemoveAttributeOp(a, key) ==
    [a EXCEPT !.attributes =
        [x \in (DOMAIN a.attributes) \ {ToLower(key)} |-> a.attributes[x]]]

\* Actor.HasAttribute
HasAttributeOp(a, key) == ToLower(key) \in DOMAIN a.attributes

\* Actor.IncrementAttribute: a missing key reads as 0
IncrementAttributeOp(a, key, delta) ==
    LET k == ToLower(key)
        v == IF k \in DOMAIN a.attributes THEN a.attributes[k] ELSE 0
    IN  [a EXCEPT !.attributes =
            [x \in (DOMAIN a.attributes) \cup {k} |->
                IF x = k THEN v + delta ELSE a.attributes[x]]]

\* Actor.DecrementAttribute: a missing key reads as 0
DecrementAttributeOp(a, key, delta) ==
    LET k == ToLower(key)
        v == IF k \in DOMAIN a.attributes THEN a.attributes[k] ELSE 0
    IN  [a EXCEPT !.attributes =
            [x \in (DOMAIN a.attributes) \cup {k} |->
                IF x = k THEN v - delta ELSE a.attributes[x]]]

\* WithModifier on a copy of the builder: the caller's builder stays as it was
WithModifierOnCopy(b, name, value) == b

\* RollBuilder.WithModifier
WithModifierOp(b, name, value) ==
    [b EXCEPT !.modifiers = Append(@, NewModifier(name, value))]

\* SkillCheck returning roller.Dice(1, 20) without the skill modifier
SkillCheckOpBare(a, skill, r) ==
    LET at == Attribute(a, skill)
    IN  IF ~at.exists
        THEN [err |-> "skill not found in actor attributes", builder |-> NoBuilder]
        ELSE [err |-> "nil", builder |-> NewRollBuilder(r, 1, 20)]

\* Actor.SkillCheck: the builder returned, or the error
SkillCheckOp(a, skill, r) ==
    LET at == Attribute(a, skill)
    IN  IF ~at.exists
        THEN [err |-> "skill not found in actor attributes", builder |-> NoBuilder]
        ELSE [err |-> "nil",
              builder |-> WithModifierOp(NewRollBuilder(r, 1, 20), skill, at.value)]

\* AttackRoll adding the combat modifiers from the last to the first
AttackRollOpReversed(a, r) ==
    [NewRollBuilder(r, 1, 20) EXCEPT !.modifiers =
        [i \in 1..Len(a.combatModifiers) |->
            NewModifier(a.combatModifiers[Len(a.combatModifiers) + 1 - i].Reason,
                        a.combatModifiers[Len(a.combatModifiers) + 1 - i].Value)]]

\* the loop of AttackRoll: builder.WithModifier(mod.Reason, mod.Value) for
\* each combat modifier in turn
RECURSIVE AttackRollLoop(_, _)
AttackRollLoop(b, mods) ==
    IF Len(mods) = 0 THEN b
    ELSE AttackRollLoop(WithModifierOp(b, mods[1].Reason, mods[1].Value), Tail(mods))

\* Actor.AttackRoll
AttackRollOp(a, r) == AttackRollLoop(NewRollBuilder(r, 1, 20), a.combatModifiers)

\* the loop over the tens dice of D100SkillCheck: `rolls` draws of
\* rng.Intn(10), keeping the lowest (bonus) or the highest (penalty)
RECURSIVE TensLoop(_, _, _, _, _)
TensLoop(g, rolls, best, lowest, drawn) ==
    IF rolls = 0 THEN [best |-> best, drawn |-> drawn, g |-> g]
    ELSE LET d    == Intn(g, 10)
             keep == IF lowest THEN (IF d.val < best THEN d.val ELSE best)
                               ELSE (IF d.val > best THEN d.val ELSE best)
         IN  TensLoop(d.g, rolls - 1, keep, lowest, Append(drawn, d.val))

\* D100 digits with the two loops exchanged: bonus keeps the highest tens digit
D100DigitsSwapped(g, bonus) ==
    IF bonus = 0
    THEN LET t == Intn(g, 10)
             o == Intn(t.g, 10)
         IN  [tens |-> t.val, drawn |-> <<t.val>>, ones |-> o.val, g |-> o.g]
    ELSE LET t == IF bonus > 0 THEN TensLoop(g, bonus + 1, 0, FALSE, <<>>)
                               ELSE TensLoop(g, (-bonus) + 1, 9, TRUE, <<>>)
             o == Intn(t.g, 10)
         IN  [tens |-> t.best, drawn |-> t.drawn, ones |-> o.val, g |-> o.g]

\* the digits of D100SkillCheck: the tens digit kept, every tens draw,
\* the ones digit, and the generator afterwards
D100Digits(g, bonus) ==
    IF bonus = 0
    THEN LET t == Intn(g, 10)
             o == Intn(t.g, 10)
         IN  [tens |-> t.val, drawn |-> <<t.val>>, ones |-> o.val, g |-> o.g]
    ELSE LET t == IF bonus > 0 THEN TensLoop(g, bonus + 1, 9, TRUE, <<>>)
                               ELSE TensLoop(g, (-bonus) + 1, 0, FALSE, <<>>)
             o == Intn(t.g, 10)
         IN  [tens |-> t.best, drawn |-> t.drawn, ones |-> o.val, g |-> o.g]

\* the d100 result without the reinterpretation of 00
D100ResultNoWrap(tens, ones) == tens * 10 + ones

\* result := tensDigit + onesDigit; if result == 0 { result = 100 }
D100Result(tens, ones) ==
    LET result == tens * 10 + ones
    IN  IF result = 0 THEN 100 ELSE result

\* the tens loop of D100SkillCheck on given draws: the lowest of them
\* (bonus) or the highest (penalty), starting from 9 or 0
RECURSIVE KeepLoop(_, _, _)
KeepLoop(drawn, best, lowest) ==
    IF Len(drawn) = 0 THEN best
    ELSE KeepLoop(Tail(drawn),
                  IF lowest THEN (IF drawn[1] < best THEN drawn[1] ELSE best)
                            ELSE (IF drawn[1] > best THEN drawn[1] ELSE best),
                  lowest)

\* success of D100SkillCheck against skillValue when rng.Intn(10) returns
\* the tens draws `drawn` and then the ones digit `ones`
D100Success(skillValue, bonus, drawn, ones) ==
    LET tens == IF bonus = 0 THEN drawn[1]
                ELSE IF bonus > 0 THEN KeepLoop(drawn, 9, TRUE)
                ELSE KeepLoop(drawn, 0, FALSE)
    IN  D100Result(tens, ones) <= skillValue

\* the digit draws D100SkillCheck can make with `bonus`: 1 + |bonus| tens
\* digits and one ones digit, each 0..9
D100Draws(bonus) ==
    [drawn : [1..(1 + (IF bonus < 0 THEN -bonus ELSE bonus)) -> 0..9], ones : 0..9]

\* how many of those draws succeed against skillValue
D100Successes(skillValue, bonus) ==
    Cardinality({ t \in D100Draws(bonus) :
                    D100Success(skillValue, bonus, t.drawn, t.ones) })

\* the modifiers D100SkillCheck hands to NewRollOutcome
D100Modifiers(skill, skillValue) ==
    << [Value |-> skillValue,
        Reason |-> ToLower(skill) \o <<" ","(","t","a","r","g","e","t",")">>] >>

\* Actor.D100SkillCheck
D100SkillCheckOp(a, skill, g, bonus) ==
    LET at == Attribute(a, skill)
    IN  IF ~at.exists
        THEN [success |-> FALSE, outcome |-> ZeroOutcome,
              err |-> "skill not found in actor attributes",
              drawn |-> <<>>, tens |-> 0, ones |-> 0, mods |-> <<>>, g |-> g]
        ELSE LET d      == D100Digits(g, bonus)
                 result == D100Result(d.tens, d.ones)
                 mods   == D100Modifiers(skill, at.value)
             IN  [success |-> result <= at.value,
                  outcome |-> NewRollOutcome(1, 100, <<result>>, mods, result),
                  err     |-> "nil",
                  drawn |-> d.drawn, tens |-> d.tens, ones |-> d.ones,
                  mods |-> mods, g |-> d.g]

(***************************************************************************)
(* Inputs of the model.                                                    *)
(***************************************************************************)
Seeds      == {7, 42, 123}
RollCounts == 0..MaxCount
DieFaces   == {0, 1, 6}
ModPool    == { [name |-> <<"S","t","r">>, value |-> 3],
                [name |-> <<"S","t","r">>, value |-> -2],
                [name |-> <<"b","l","e","s","s">>, value |-> 0] }
\* the maps given to WithModifiers: at most one value per name
ModMaps    == { m \in SUBSET ModPool :
                  \A x, y \in m : x.name = y.name => x = y }
\* the expressions given to Roller.Roll
RollExprs  == { <<"2","d","6">>, <<"2","d","1","-","2">>, <<"2","d","0">> }
\* the expressions given to Roller.Roll where the parser itself is examined
NotationExprs ==
    { <<"2","d","6">>, <<"2","D","6">>, <<" ","2","d","6"," ">>,
      <<"\t","1","D","6","+","5","\n">>, <<"2","d","1","-","2">>,
      <<"d","6">>, <<"D","6","+","1">>,
      <<"0","d","6">>, <<"2","d","0">>, <<"2","d">>, <<"6">>, <<>>,
      <<"1","d","x">>, <<"1","d","6","+","3","+","2">>, <<"2"," ","d","6">> }
SkillNames == { <<"s","t","e","a","l","t","h">>, <<"S","T","E","A","L","T","H">>,
                <<"d","o","d","g","e">> }
AttrKeys   == { <<"S","t","e","a","l","t","h">> }
Targets    == {1, 50, 100}
Bonuses    == (-MaxBonus)..MaxBonus

\* the hit points given to NewActor and SetMaxHP, the armour classes given to
\* NewActor and SetAC, the values given to SetHP, the amounts given to SubHP
\* and AddHP
HPValues   == {-1, 0, 2, 4}
ACValues   == {-1, 0, 3}
HPArgs     == {-1, 0, 1, 3, 5}
Amounts    == {-2, 0, 1, 5}
ActorName  == <<"B","u","s","t","a"," ","t","h","e"," ","B","l","a","c","k">>

\* the keys given to the attribute methods: three spellings of one key and
\* a second key
KeyVariants == { <<"S","t","e","a","l","t","h">>, <<"S","T","E","A","L","T","H">>,
                 <<"s","t","e","a","l","t","h">>, <<"D","o","d","g","e">> }

\* the names given to NewActor: every string of at most MaxIDLen characters
\* over an upper-case letter, a lower-case letter, a digit, a space, an
\* underscore and a hyphen
IDChars == {"A", "b", "1", " ", "_", "-"}
IDs     == UNION { [1..n -> IDChars] : n \in 0..MaxIDLen }

\* the skill values and the bonus dice for which d100 successes are counted
OddsTargets == 50..100
OddsBonuses == {-1, 0, 1}

\* the orders in which a range over a Go map can visit the entries of m
Orderings(m) ==
    { o \in [1..Cardinality(m) -> m] : \A i, j \in DOMAIN o : i # j => o[i] # o[j] }

\* RollBuilder.WithModifiers, the map visited in the order o
RECURSIVE WithModifiersOp(_, _)
WithModifiersOp(b, o) ==
    IF Len(o) = 0 THEN b
    ELSE WithModifiersOp(WithModifierOp(b, o[1].name, o[1].value), Tail(o))

\* an actor as Build returns it
InitActor == BuildActor(<<"B","u","s","t","a"," ","t","h","e"," ","B","l","a","c","k">>,
                        45, 18).actor

\* what a call returned; the fields a call does not set keep these values
NoRet == [op |-> "none", err |-> "nil", outcome |-> ZeroOutcome, result |-> ZeroResult,
          success |-> FALSE, builder |-> NoBuilder,
          roller |-> 0, before |-> 0, draws |-> 0,
          used |-> <<>>, mods |-> <<>>, expr |-> <<>>, skill |-> <<>>,
          bonus |-> 0, target |-> 0, drawn |-> <<>>, tens |-> 0, ones |-> 0,
          arg |-> 0, key |-> <<>>, call |-> "none"]

\* the record of a Roller that is not being recorded
NoHist == [seed |-> 0, calls |-> <<>>]

\* no concurrent callers
NoCallers == [none |-> TRUE]

\* every caller is handed the one Roller
RollerOfGlobal(shared, c) == 1

\* the Roller caller c rolls on: the one Roller when it is shared, a Roller
\* of its own otherwise
RollerOf(shared, c) == IF shared THEN 1 ELSE c

\* a generator state with the count of Intn calls started at 0
Gen(s) == [s |-> s, n |-> 0]

(***************************************************************************)
(* Actions.                                                                *)
(***************************************************************************)
\* NewRoller(seed): a fresh Roller takes the place of Roller r
NewRoller(r, seed) ==
    /\ r \in DOMAIN rng
    /\ rng' = [rng EXCEPT ![r] = NewSource(seed)]
    /\ rb' = IF rb.roller = r THEN NoBuilder ELSE rb
    /\ ret' = [NoRet EXCEPT !.op = "NewRoller", !.roller = r]
    /\ UNCHANGED <<actor, hist, ab, heap, conc>>

\* roller.Dice(rollCount, dieFaces)
Dice(r, rollCount, dieFaces) ==
    /\ r \in DOMAIN rng
    /\ rb' = NewRollBuilder(r, rollCount, dieFaces)
    /\ ret' = [NoRet EXCEPT !.op = "builder", !.call = "Dice"]
    /\ UNCHANGED <<rng, actor, hist, ab, heap, conc>>

\* rb.WithModifier(name, value)
WithModifier(name, value) ==
    /\ rb # NoBuilder
    /\ Len(rb.modifiers) < MaxMods
    /\ rb' = WithModifierOp(rb, name, value)
    /\ ret' = [NoRet EXCEPT !.op = "builder", !.call = "WithModifier"]
    /\ UNCHANGED <<rng, actor, hist, ab, heap, conc>>

\* rb.WithModifiers(m)
WithModifiers(m) ==
    /\ rb # NoBuilder
    /\ Len(rb.modifiers) + Cardinality(m) <= MaxMods
    /\ \E o \in Orderings(m) : rb' = WithModifiersOp(rb, o)
    /\ ret' = [NoRet EXCEPT !.op = "builder", !.call = "WithModifiers"]
    /\ UNCHANGED <<rng, actor, hist, ab, heap, conc>>

\* rb.WithAdvantage()
WithAdvantage ==
    /\ rb # NoBuilder
    /\ rb' = WithAdvantageOp(rb)
    /\ ret' = [NoRet EXCEPT !.op = "builder", !.call = "WithAdvantage"]
    /\ UNCHANGED <<rng, actor, hist, ab, heap, conc>>

\* rb.WithDisadvantage()
WithDisadvantage ==
    /\ rb # NoBuilder
    /\ rb' = WithDisadvantageOp(rb)
    /\ ret' = [NoRet EXCEPT !.op = "builder", !.call = "WithDisadvantage"]
    /\ UNCHANGED <<rng, actor, hist, ab, heap, conc>>

\* rb.Normal()
Normal ==
    /\ rb # NoBuilder
    /\ rb' = NormalOp(rb)
    /\ ret' = [NoRet EXCEPT !.op = "builder", !.call = "Normal"]
    /\ UNCHANGED <<rng, actor, hist, ab, heap, conc>>

\* rb.Roll()
Roll ==
    /\ rb # NoBuilder
    /\ \E res \in {RollBuilderRoll(rb, Gen(rng[rb.roller]))} :
           /\ rng' = [rng EXCEPT ![rb.roller] = res.g.s]
           /\ ret' = [NoRet EXCEPT !.op = "Roll", !.err = res.err,
                                   !.outcome = res.outcome, !.used = res.used,
                                   !.mods = rb.modifiers, !.roller = rb.roller,
                                   !.before = rng[rb.roller], !.draws = res.g.n]
    /\ UNCHANGED <<rb, actor, hist, ab, heap, conc>>

\* roller.Roll(expr), the dice-notation entry point
RollNotation(r, expr) ==
    /\ r \in DOMAIN rng
    /\ \E res \in {roll(Gen(rng[r]), expr)} :
           /\ rng' = [rng EXCEPT ![r] = res.g.s]
           /\ ret' = [NoRet EXCEPT !.op = "RollNotation", !.err = res.err,
                                   !.result = res.result, !.expr = expr, !.roller = r,
                                   !.before = rng[r], !.draws = res.g.n]
    /\ UNCHANGED <<rb, actor, hist, ab, heap, conc>>

\* actor.SetAttribute(key, value)
SetAttribute(key, value) ==
    /\ actor # NilActor
    /\ actor' = SetAttributeOp(actor, key, value)
    /\ ab' = IF heap.attrsShared THEN [ab EXCEPT !.attributes = actor'.attributes] ELSE ab
    /\ ret' = [NoRet EXCEPT !.op = "SetAttribute", !.key = key, !.arg = value]
    /\ UNCHANGED <<rng, rb, hist, heap, conc>>

\* actor.RemoveAttribute(key)
RemoveAttribute(key) ==
    /\ actor # NilActor
    /\ actor' = RemoveAttributeOp(actor, key)
    /\ ab' = IF heap.attrsShared THEN [ab EXCEPT !.attributes = actor'.attributes] ELSE ab
    /\ ret' = [NoRet EXCEPT !.op = "RemoveAttribute", !.key = key]
    /\ UNCHANGED <<rng, rb, hist, heap, conc>>

\* actor.SkillCheck(skill, roller)
SkillCheck(skill, r) ==
    /\ r \in DOMAIN rng
    /\ \E res \in {SkillCheckOp(actor, skill, r)} :
           /\ rb' = res.builder
           /\ ret' = [NoRet EXCEPT !.op = "SkillCheck", !.err = res.err,
                                   !.builder = res.builder, !.skill = skill,
                                   !.roller = r, !.before = rng[r]]
    /\ UNCHANGED <<rng, actor, hist, ab, heap, conc>>

\* actor.D100SkillCheck(skill, roller, bonus)
D100SkillCheck(skill, r, bonus) ==
    /\ r \in DOMAIN rng
    /\ \E res \in {D100SkillCheckOp(actor, skill, Gen(rng[r]), bonus)} :
           /\ rng' = [rng EXCEPT ![r] = res.g.s]
           /\ ret' = [NoRet EXCEPT !.op = "D100SkillCheck", !.err = res.err,
                                   !.outcome = res.outcome, !.success = res.success,
                                   !.skill = skill, !.bonus = bonus,
                                   !.target = Attribute(actor, skill).value,
                                   !.mods = res.mods, !.drawn = res.drawn,
                                   !.tens = res.tens, !.ones = res.ones,
                                   !.roller = r, !.before = rng[r], !.draws = res.g.n]
    /\ UNCHANGED <<rb, actor, hist, ab, heap, conc>>

(***************************************************************************)
(* Specification of the roll engine: one Roller, the builder and the       *)
(* notation entry point.                                                   *)
(***************************************************************************)
Init ==
    /\ hist = [r \in {1} |-> NoHist]
    /\ \E seed \in Seeds : rng = [r \in {1} |-> NewSource(seed)]
    /\ rb = NoBuilder
    /\ actor = InitActor
    /\ ret = NoRet
    /\ ab = NoActorBuilder
    /\ heap = NoSharing
    /\ conc = NoCallers

Next ==
    \/ \E seed \in Seeds : NewRoller(1, seed)
    \/ \E n \in RollCounts, f \in DieFaces : Dice(1, n, f)
    \/ \E m \in ModPool : WithModifier(m.name, m.value)
    \/ \E m \in ModMaps : WithModifiers(m)
    \/ WithAdvantage
    \/ WithDisadvantage
    \/ Normal
    \/ Roll
    \/ \E e \in RollExprs : RollNotation(1, e)

Spec == Init /\ [][Next]_vars

(***************************************************************************)
(* Specification of the actor's checks: one Roller, one Actor.             *)
(***************************************************************************)
NextActor ==
    \/ \E seed \in Seeds : NewRoller(1, seed)
    \/ \E k \in AttrKeys, v \in Targets : SetAttribute(k, v)
    \/ \E k \in AttrKeys : RemoveAttribute(k)
    \/ \E s \in SkillNames : SkillCheck(s, 1)
    \/ \E s \in SkillNames, b \in Bonuses : D100SkillCheck(s, 1, b)
    \/ Roll

SpecActor == Init /\ [][NextActor]_vars

(***************************************************************************)
(* The Actor's hit points and armour class, from construction on.          *)
(***************************************************************************)
\* NewActor(id, hp, ac): a new builder with its own map and slice
NewActor(id, hp, ac) ==
    /\ ab' = NewActorOp(id, hp, ac)
    /\ heap' = [heap EXCEPT !.attrsShared = FALSE, !.cmShared = FALSE, !.abCap = 0]
    /\ ret' = [NoRet EXCEPT !.op = "NewActor", !.key = id]
    /\ UNCHANGED <<rng, rb, actor, hist, conc>>

\* actor, err = ab.Build(): the actor is handed the builder's map and slice
Build ==
    /\ ab # NoActorBuilder
    /\ \E res \in {BuildOp(ab)} :
           /\ actor' = res.actor
           /\ heap' = IF res.err = "nil"
                      THEN [heap EXCEPT !.attrsShared = TRUE, !.cmShared = TRUE,
                                        !.actorCap = heap.abCap]
                      ELSE [heap EXCEPT !.attrsShared = FALSE, !.cmShared = FALSE,
                                        !.actorCap = 0]
           /\ ret' = [NoRet EXCEPT !.op = "Build", !.err = res.err]
    /\ UNCHANGED <<rng, rb, hist, ab, conc>>

\* actor.SetHP(hp)
SetHP(hp) ==
    /\ actor # NilActor
    /\ \E res \in {SetHPOp(actor, hp)} :
           /\ actor' = res.actor
           /\ ret' = [NoRet EXCEPT !.op = "SetHP", !.err = res.err, !.arg = hp]
    /\ UNCHANGED <<rng, rb, hist, ab, heap, conc>>

\* actor.SetMaxHP(maxHP)
SetMaxHP(maxHP) ==
    /\ actor # NilActor
    /\ \E res \in {SetMaxHPOp(actor, maxHP)} :
           /\ actor' = res.actor
           /\ ret' = [NoRet EXCEPT !.op = "SetMaxHP", !.err = res.err, !.arg = maxHP]
    /\ UNCHANGED <<rng, rb, hist, ab, heap, conc>>

\* actor.SubHP(damage)
SubHP(damage) ==
    /\ actor # NilActor
    /\ SubHPOp(actor, damage).currentHP <= MaxHPDrift
    /\ actor' = SubHPOp(actor, damage)
    /\ ret' = [NoRet EXCEPT !.op = "SubHP", !.arg = damage]
    /\ UNCHANGED <<rng, rb, hist, ab, heap, conc>>

\* actor.AddHP(amount)
AddHP(amount) ==
    /\ actor # NilActor
    /\ AddHPOp(actor, amount).currentHP >= -MaxHPDrift
    /\ actor' = AddHPOp(actor, amount)
    /\ ret' = [NoRet EXCEPT !.op = "AddHP", !.arg = amount]
    /\ UNCHANGED <<rng, rb, hist, ab, heap, conc>>

\* actor.ResetHP()
ResetHP ==
    /\ actor # NilActor
    /\ actor' = ResetHPOp(actor)
    /\ ret' = [NoRet EXCEPT !.op = "ResetHP"]
    /\ UNCHANGED <<rng, rb, hist, ab, heap, conc>>

\* actor.IsKnockedOut()
IsKnockedOut ==
    /\ actor # NilActor
    /\ ret' = [NoRet EXCEPT !.op = "IsKnockedOut", !.success = IsKnockedOutOp(actor)]
    /\ UNCHANGED <<rng, rb, actor, hist, ab, heap, conc>>

\* actor.SetAC(ac)
SetAC(ac) ==
    /\ actor # NilActor
    /\ \E res \in {SetACOp(actor, ac)} :
           /\ actor' = res.actor
           /\ ret' = [NoRet EXCEPT !.op = "SetAC", !.err = res.err, !.arg = ac]
    /\ UNCHANGED <<rng, rb, hist, ab, heap, conc>>

NextHP ==
    \/ \E hp \in HPValues, ac \in ACValues : NewActor(ActorName, hp, ac)
    \/ Build
    \/ \E hp \in HPArgs : SetHP(hp)
    \/ \E m \in HPValues : SetMaxHP(m)
    \/ \E d \in Amounts : SubHP(d)
    \/ \E n \in Amounts : AddHP(n)
    \/ ResetHP
    \/ IsKnockedOut
    \/ \E ac \in ACValues : SetAC(ac)

\* one Roller, made with a fixed seed and not used
InitHP == Init /\ rng = [r \in {1} |-> NewSource(42)]

SpecHP == InitHP /\ [][NextHP]_vars

(***************************************************************************)
(* The builder, the actor and the collections they hold.                   *)
(***************************************************************************)
\* ab.WithAttribute(key, value): a write to the builder's map
WithAttribute(key, value) ==
    /\ ab # NoActorBuilder
    /\ ab' = WithAttributeOp(ab, key, value)
    /\ actor' = IF heap.attrsShared
                THEN [actor EXCEPT !.attributes = ab'.attributes] ELSE actor
    /\ ret' = [NoRet EXCEPT !.op = "WithAttribute"]
    /\ UNCHANGED <<rng, rb, hist, heap, conc>>

\* ab.WithCombatModifier(name, value): an append to the builder's slice
WithCombatModifier(name, value) ==
    /\ ab # NoActorBuilder
    /\ Len(ab.combatModifiers) < MaxCombatMods
    /\ \E res \in {SliceAppend(ab.combatModifiers, heap.abCap,
                                IF heap.cmShared THEN actor.combatModifiers ELSE <<>>,
                                heap.cmShared, NewModifier(name, value))} :
           /\ ab' = [ab EXCEPT !.combatModifiers = res.mine]
           /\ actor' = IF heap.cmShared
                       THEN [actor EXCEPT !.combatModifiers = res.other] ELSE actor
           /\ heap' = [heap EXCEPT !.abCap = res.cap, !.cmShared = res.shared]
    /\ ret' = [NoRet EXCEPT !.op = "WithCombatModifier"]
    /\ UNCHANGED <<rng, rb, hist, conc>>

\* actor.AddCombatModifier(name, value): an append to the actor's slice
AddCombatModifier(name, value) ==
    /\ actor # NilActor
    /\ Len(actor.combatModifiers) < MaxCombatMods
    /\ \E res \in {SliceAppend(actor.combatModifiers, heap.actorCap,
                                IF heap.cmShared THEN ab.combatModifiers ELSE <<>>,
                                heap.cmShared, NewModifier(name, value))} :
           /\ actor' = [actor EXCEPT !.combatModifiers = res.mine]
           /\ ab' = IF heap.cmShared
                    THEN [ab EXCEPT !.combatModifiers = res.other] ELSE ab
           /\ heap' = [heap EXCEPT !.actorCap = res.cap, !.cmShared = res.shared]
    /\ ret' = [NoRet EXCEPT !.op = "AddCombatModifier"]
    /\ UNCHANGED <<rng, rb, hist, conc>>

\* actor.RemoveCombatModifier(reason): the actor's slice becomes a new one
RemoveCombatModifier(reason) ==
    /\ actor # NilActor
    /\ actor' = [actor EXCEPT !.combatModifiers = RemoveCombatModifierOp(@, reason)]
    /\ heap' = [heap EXCEPT !.actorCap = Len(actor.combatModifiers), !.cmShared = FALSE]
    /\ ret' = [NoRet EXCEPT !.op = "RemoveCombatModifier", !.key = reason,
                            !.mods = actor.combatModifiers]
    /\ UNCHANGED <<rng, rb, hist, ab, conc>>

\* mods := actor.GetCombatModifiers()
GetCombatModifiers ==
    /\ actor # NilActor
    /\ ret' = [NoRet EXCEPT !.op = "GetCombatModifiers",
                            !.mods = GetCombatModifiersOp(actor)]
    /\ UNCHANGED <<rng, rb, actor, hist, ab, heap, conc>>

\* mods[i] = m on the slice GetCombatModifiers returned: a write to the
\* array that make allocated for it
WriteReturned(i, m) ==
    /\ ret.op = "GetCombatModifiers"
    /\ i \in 1..Len(ret.mods)
    /\ ret' = [ret EXCEPT !.op = "WriteReturned", !.mods[i] = m]
    /\ UNCHANGED <<rng, rb, actor, hist, ab, heap, conc>>

NextOwner ==
    \/ NewActor(ActorName, 4, 3)
    \/ Build
    \/ \E k \in AttrKeys : WithAttribute(k, 50)
    \/ WithCombatModifier(<<"S","t","r">>, 3)
    \/ AddCombatModifier(<<"B","l","e","s","s">>, 2)
    \/ RemoveCombatModifier(<<"B","L","E","S","S">>)
    \/ \E k \in AttrKeys : SetAttribute(k, 1)
    \/ GetCombatModifiers
    \/ WriteReturned(1, [Value |-> 999, Reason |-> <<"s","t","r">>])

SpecOwner == InitHP /\ [][NextOwner]_vars

(***************************************************************************)
(* Attack rolls.                                                           *)
(***************************************************************************)
\* actor.AttackRoll(roller)
AttackRoll(r) ==
    /\ actor # NilActor
    /\ r \in DOMAIN rng
    /\ rb' = AttackRollOp(actor, r)
    /\ ret' = [NoRet EXCEPT !.op = "AttackRoll", !.builder = rb', !.roller = r,
                            !.before = rng[r]]
    /\ UNCHANGED <<rng, actor, hist, ab, heap, conc>>

NextAttack ==
    \/ /\ Len(actor.combatModifiers) < MaxAttackMods
       /\ \/ AddCombatModifier(<<"S","t","r">>, 3)
          \/ AddCombatModifier(<<"B","l","e","s","s">>, -1)
    \/ RemoveCombatModifier(<<"S","T","R">>)
    \/ AttackRoll(1)
    \/ WithModifier(<<"F","l","a","n","k","i","n","g">>, 2)
    \/ Roll

SpecAttack == InitHP /\ [][NextAttack]_vars

(***************************************************************************)
(* The combat-modifier list of one actor.                                  *)
(***************************************************************************)
NextMods ==
    \/ /\ Len(actor.combatModifiers) < MaxCombatMods
       /\ \/ AddCombatModifier(<<"S","t","r">>, 3)
          \/ AddCombatModifier(<<"s","t","r">>, 1)
          \/ AddCombatModifier(<<"B","l","e","s","s">>, -1)
    \/ RemoveCombatModifier(<<"B","L","E","S","S">>)
    \/ RemoveCombatModifier(<<"d","o","d","g","e">>)
    \/ GetCombatModifiers

SpecMods == InitHP /\ [][NextMods]_vars

(***************************************************************************)
(* The attribute map.                                                      *)
(***************************************************************************)
\* value, exists := actor.Attribute(key)
ReadAttribute(key) ==
    /\ actor # NilActor
    /\ ret' = [NoRet EXCEPT !.op = "Attribute", !.key = key,
                            !.arg = Attribute(actor, key).value,
                            !.success = Attribute(actor, key).exists]
    /\ UNCHANGED <<rng, rb, actor, hist, ab, heap, conc>>

\* actor.HasAttribute(key)
HasAttribute(key) ==
    /\ actor # NilActor
    /\ ret' = [NoRet EXCEPT !.op = "HasAttribute", !.key = key,
                            !.success = HasAttributeOp(actor, key)]
    /\ UNCHANGED <<rng, rb, actor, hist, ab, heap, conc>>

\* actor.IncrementAttribute(key, delta)
IncrementAttribute(key, delta) ==
    /\ actor # NilActor
    /\ Attribute(actor, key).value + delta <= MaxAttrValue
    /\ actor' = IncrementAttributeOp(actor, key, delta)
    /\ ab' = IF heap.attrsShared THEN [ab EXCEPT !.attributes = actor'.attributes] ELSE ab
    /\ ret' = [NoRet EXCEPT !.op = "IncrementAttribute", !.key = key, !.arg = delta]
    /\ UNCHANGED <<rng, rb, hist, heap, conc>>

\* actor.DecrementAttribute(key, delta)
DecrementAttribute(key, delta) ==
    /\ actor # NilActor
    /\ Attribute(actor, key).value - delta >= -MaxAttrValue
    /\ actor' = DecrementAttributeOp(actor, key, delta)
    /\ ab' = IF heap.attrsShared THEN [ab EXCEPT !.attributes = actor'.attributes] ELSE ab
    /\ ret' = [NoRet EXCEPT !.op = "DecrementAttribute", !.key = key, !.arg = delta]
    /\ UNCHANGED <<rng, rb, hist, heap, conc>>

NextAttrs ==
    \/ NewActor(ActorName, 4, 3)
    \/ WithAttribute(<<"S","T","E","A","L","T","H">>, 2)
    \/ Build
    \/ \E k \in KeyVariants, v \in {0, 2} : SetAttribute(k, v)
    \/ \E k \in KeyVariants : RemoveAttribute(k)
    \/ \E k \in KeyVariants : IncrementAttribute(k, 1)
    \/ \E k \in KeyVariants : DecrementAttribute(k, 2)
    \/ \E k \in KeyVariants : ReadAttribute(k)
    \/ \E k \in KeyVariants : HasAttribute(k)

SpecAttrs == InitHP /\ [][NextAttrs]_vars

(***************************************************************************)
(* Actors made from arbitrary names.                                       *)
(***************************************************************************)
\* one builder is made, from any of the names
NextID ==
    \/ ab = NoActorBuilder /\ \E id \in IDs : NewActor(id, 4, 3)
    \/ Build
    \/ SetHP(1)
    \/ SetMaxHP(2)
    \/ SetAC(5)
    \/ SetAttribute(<<"S","t","e","a","l","t","h">>, 2)
    \/ WithAttribute(<<"D","o","d","g","e">>, 1)

SpecID == InitHP /\ [][NextID]_vars

(***************************************************************************)
(* Two callers rolling at the same time.  Each runs the Normal loop of     *)
(* RollBuilder.Roll for Dice(ConcDice, ConcFaces); nothing orders their    *)
(* accesses to the generator, so one rng.Intn by a caller is a load of the *)
(* generator state and a later store of the advanced state, and the other  *)
(* caller may run in between.                                              *)
(***************************************************************************)
ConcDice  == 2
ConcFaces == 6
Callers   == {1, 2}

\* caller c has not yet filled rolls[0..rollCount)
Rolling(c) == Len(conc.dice[c]) < ConcDice

\* rng.Intn, first half: caller c loads the generator state of its Roller
ConcLoad(c) ==
    /\ conc # NoCallers
    /\ Rolling(c)
    /\ ~conc.loaded[c]
    /\ conc' = [conc EXCEPT !.loaded[c] = TRUE, !.seen[c] = rng[conc.roller[c]]]
    /\ UNCHANGED <<rng, rb, actor, ret, hist, ab, heap>>

\* rng.Intn, second half: caller c stores the state that follows the one it
\* loaded and keeps the value drawn from it as rolls[i]
ConcStore(c) ==
    /\ conc # NoCallers
    /\ conc.loaded[c]
    /\ \E d \in {Intn(Gen(conc.seen[c]), ConcFaces)} :
           /\ rng' = [rng EXCEPT ![conc.roller[c]] = d.g.s]
           /\ conc' = [conc EXCEPT !.loaded[c] = FALSE,
                                   !.dice[c] = Append(@, d.val + 1)]
    /\ UNCHANGED <<rb, actor, ret, hist, ab, heap>>

\* two Rollers made from seeds, and two callers that either share Roller 1
\* or have one each
InitConc ==
    /\ \E s1 \in Seeds, s2 \in Seeds, shared \in BOOLEAN :
          /\ rng = [r \in {1, 2} |-> NewSource(IF r = 1 THEN s1 ELSE s2)]
          /\ conc = [shared |-> shared,
                     roller |-> [c \in Callers |-> RollerOf(shared, c)],
                     start  |-> rng,
                     loaded |-> [c \in Callers |-> FALSE],
                     seen   |-> [c \in Callers |-> 0],
                     dice   |-> [c \in Callers |-> <<>>]]
    /\ hist = [r \in {1} |-> NoHist]
    /\ rb = NoBuilder
    /\ actor = InitActor
    /\ ret = NoRet
    /\ ab = NoActorBuilder
    /\ heap = NoSharing

NextConc == \E c \in Callers : ConcLoad(c) \/ ConcStore(c)

SpecConc == InitConc /\ [][NextConc]_vars

(***************************************************************************)
(* D100SkillCheck over every tuple of digit draws.                         *)
(***************************************************************************)
\* D100SkillCheck against skillValue with `bonus`, applied to each tuple of
\* digits the generator can return: the number of tuples that succeed
D100Odds(skillValue, bonus) ==
    /\ ret' = [NoRet EXCEPT !.op = "D100Odds", !.target = skillValue,
                            !.bonus = bonus,
                            !.arg = D100Successes(skillValue, bonus),
                            !.draws = Cardinality(D100Draws(bonus))]
    /\ UNCHANGED <<rng, rb, actor, hist, ab, heap, conc>>

NextOdds == \E t \in OddsTargets, b \in OddsBonuses : D100Odds(t, b)

SpecOdds == InitHP /\ [][NextOdds]_vars

(***************************************************************************)
(* A Roller given dice notation only.                                      *)
(***************************************************************************)
NextNotation ==
    \/ \E seed \in Seeds : NewRoller(1, seed)
    \/ \E e \in NotationExprs : RollNotation(1, e)

SpecNotation == Init /\ [][NextNotation]_vars

(***************************************************************************)
(* Specification of two runs: Roller 1 is given any sequence of roll       *)
(* calls; Roller 2, constructed independently at any time, is given the    *)
(* same calls in the same order.  hist records each Roller's seed and the  *)
(* requests and results of its calls.                                      *)
(***************************************************************************)
Request(kind, count, faces, mods, mode, expr, skill, bonus) ==
    [kind |-> kind, count |-> count, faces |-> faces, mods |-> mods, mode |-> mode,
     expr |-> expr, skill |-> skill, bonus |-> bonus]

Requests ==
    { Request("Dice", n, 6, m, a, <<>>, <<>>, 0) :
        n \in 1..MaxCount, m \in {<<>>, <<[name |-> <<"S","t","r">>, value |-> 3]>>},
        a \in AdvantageTypes }
    \cup { Request("Notation", 0, 0, <<>>, "Normal", e, <<>>, 0) :
        e \in { <<"2","d","6">>, <<"1","d","6","+","5">>, <<"2","d","0">> } }
    \cup { Request("D100", 0, 0, <<>>, "Normal", <<>>, sk, b) :
        sk \in { <<"s","t","e","a","l","t","h">> }, b \in {-1, 0, 1} }
    \cup { Request("D100", 0, 0, <<>>, "Normal", <<>>, <<"d","o","d","g","e">>, 0) }

\* the builder that roller.Dice(..).WithModifier(..)...WithAdvantage() configures
BuilderOf(r, req) ==
    [WithModifiersOp(NewRollBuilder(r, req.count, req.faces), req.mods)
        EXCEPT !.advantageType = req.mode]

\* the call `req` made on Roller r in generator state s:
\* what the caller sees and the generator state afterwards
Perform(r, req, s) ==
    IF req.kind = "Dice"
    THEN LET res == RollBuilderRoll(BuilderOf(r, req), Gen(s))
         IN  [rolls |-> res.outcome.DiceRolls, value |-> res.outcome.Value,
              err |-> res.err, s |-> res.g.s]
    ELSE IF req.kind = "Notation"
    THEN LET res == roll(Gen(s), req.expr)
         IN  [rolls |-> res.result.Rolls, value |-> res.result.Total,
              err |-> res.err, s |-> res.g.s]
    ELSE LET res == D100SkillCheckOp(actor, req.skill, Gen(s), req.bonus)
         IN  [rolls |-> res.outcome.DiceRolls, value |-> res.outcome.Value,
              err |-> res.err, s |-> res.g.s]

Logged(req, res) == [req |-> req, rolls |-> res.rolls, value |-> res.value, err |-> res.err]

\* a roll call on Roller 1
PairCall(req) ==
    /\ Len(hist[1].calls) < MaxCalls
    /\ \E res \in {Perform(1, req, rng[1])} :
           /\ rng' = [rng EXCEPT ![1] = res.s]
           /\ hist' = [hist EXCEPT ![1].calls = Append(@, Logged(req, res))]
    /\ UNCHANGED <<rb, actor, ret, ab, heap, conc>>

\* NewRoller(seed) for the second run
PairNewRoller(seed) ==
    /\ 2 \notin DOMAIN rng
    /\ rng' = [r \in {1, 2} |-> IF r = 1 THEN rng[1] ELSE NewSource(seed)]
    /\ hist' = [r \in {1, 2} |-> IF r = 1 THEN hist[1] ELSE [seed |-> seed, calls |-> <<>>]]
    /\ UNCHANGED <<rb, actor, ret, ab, heap, conc>>

\* Roller 2 is given the next call of the sequence Roller 1 was given
PairReplay ==
    /\ 2 \in DOMAIN rng
    /\ Len(hist[2].calls) < Len(hist[1].calls)
    /\ \E req \in {hist[1].calls[Len(hist[2].calls) + 1].req} :
       \E res \in {Perform(2, req, rng[2])} :
           /\ rng' = [rng EXCEPT ![2] = res.s]
           /\ hist' = [hist EXCEPT ![2].calls = Append(@, Logged(req, res))]
    /\ UNCHANGED <<rb, actor, ret, ab, heap, conc>>

InitPair ==
    /\ \E seed \in Seeds :
          /\ hist = [r \in {1} |-> [seed |-> seed, calls |-> <<>>]]
          /\ rng = [r \in {1} |-> NewSource(seed)]
    /\ rb = NoBuilder
    /\ actor = SetAttributeOp(InitActor, <<"S","t","e","a","l","t","h">>, 50)
    /\ ret = NoRet
    /\ ab = NoActorBuilder
    /\ heap = NoSharing
    /\ conc = NoCallers

NextPair ==
    \/ \E req \in Requests : PairCall(req)
    \/ \E seed \in Seeds : PairNewRoller(seed)
    \/ PairReplay

SpecPair == InitPair /\ [][NextPair]_vars

(***************************************************************************)
(* Properties.                                                             *)
(***************************************************************************)
\* the generator state k steps after s
RECURSIVE StepN(_, _)
StepN(s, k) == IF k = 0 THEN s ELSE StepN(RngStep(s), k - 1)

\* the value of the k-th Intn(n) call made from generator state s
DrawAt(s, k, n) == (StepN(s, k) \div RngShift) % n

SumValues(mods) == SumSeq([i \in 1..Len(mods) |-> mods[i].Value])

\* the dice that count towards the total: all of them in Normal mode, the
\* higher of each pair under Advantage, the lower under Disadvantage
SelectedDice(mode, rolls) ==
    IF mode = "Normal" THEN rolls
    ELSE [i \in 1..(Len(rolls) \div 2) |->
            IF mode = "Advantage" THEN Max(rolls[2 * i - 1], rolls[2 * i])
                                  ELSE Min(rolls[2 * i - 1], rolls[2 * i])]

MinOf(seq) == CHOOSE x \in {seq[i] : i \in 1..Len(seq)} : \A i \in 1..Len(seq) : x <= seq[i]
MaxOf(seq) == CHOOSE x \in {seq[i] : i \in 1..Len(seq)} : \A i \in 1..Len(seq) : x >= seq[i]

RollOk     == ret.op = "Roll" /\ ret.err = "nil"
NotationOk == ret.op = "RollNotation" /\ ret.err = "nil"
D100Ok     == ret.op = "D100SkillCheck" /\ ret.err = "nil"

\* C1: after every successful RollBuilder.Roll, in each of the three modes and
\* for any modifier list, Value is the sum of the dice selected for the total
\* plus the sum of all modifier values.
C1_SumInvariant ==
    RollOk =>
        ret.outcome.Value =
            SumSeq(SelectedDice(rb.advantageType, ret.outcome.DiceRolls))
              + SumValues(rb.modifiers)

\* a Disadvantage roll of two dice whose pairs differ, with two modifiers of
\* the same reason, one of them negative
C1_Witness ==
    /\ RollOk
    /\ rb.advantageType = "Disadvantage" /\ rb.rollCount = 2
    /\ ret.outcome.DiceRolls[1] # ret.outcome.DiceRolls[2]
    /\ Len(rb.modifiers) = 2
    /\ rb.modifiers[1].Reason = rb.modifiers[2].Reason
    /\ rb.modifiers[1].Value < 0 /\ rb.modifiers[2].Value > 0

\* C2: under Advantage and Disadvantage the two draws of logical die i are
\* stored next to each other in DiceRolls in the order drawn (0-based 2i and
\* 2i+1), and the die adds their maximum (Advantage) or minimum
\* (Disadvantage) to the total.
C2_AdvantageSelection ==
    (RollOk /\ rb.advantageType \in {"Advantage", "Disadvantage"}) =>
        /\ Len(ret.outcome.DiceRolls) = 2 * rb.rollCount
        /\ Len(ret.used) = rb.rollCount
        /\ \A i \in 1..rb.rollCount :
             /\ ret.outcome.DiceRolls[2 * i - 1] = DrawAt(ret.before, 2 * i - 1, rb.dieFaces) + 1
             /\ ret.outcome.DiceRolls[2 * i] = DrawAt(ret.before, 2 * i, rb.dieFaces) + 1
             /\ ret.used[i] =
                  IF rb.advantageType = "Advantage"
                  THEN Max(ret.outcome.DiceRolls[2 * i - 1], ret.outcome.DiceRolls[2 * i])
                  ELSE Min(ret.outcome.DiceRolls[2 * i - 1], ret.outcome.DiceRolls[2 * i])
        /\ ret.outcome.Value = SumSeq(ret.used) + SumValues(rb.modifiers)

\* a Disadvantage roll of two dice: the first pair has its lower draw first,
\* the second pair has it second
C2_Witness ==
    /\ RollOk
    /\ rb.advantageType = "Disadvantage" /\ rb.rollCount = 2
    /\ ret.outcome.DiceRolls[1] < ret.outcome.DiceRolls[2]
    /\ ret.outcome.DiceRolls[3] > ret.outcome.DiceRolls[4]

\* C3: a successful Roll makes exactly rollCount draws and returns rollCount
\* dice in Normal mode, and exactly 2*rollCount draws and dice under
\* Advantage and Disadvantage.
C3_DrawCount ==
    RollOk =>
        LET k == IF rb.advantageType = "Normal" THEN rb.rollCount ELSE 2 * rb.rollCount
        IN  /\ rb.rollCount >= 1
            /\ ret.draws = k
            /\ Len(ret.outcome.DiceRolls) = k
            /\ rng[ret.roller] = StepN(ret.before, k)

C3_Witness ==
    /\ RollOk
    /\ rb.advantageType = "Advantage" /\ rb.rollCount = 2
    /\ ret.draws = 4 /\ Len(ret.outcome.DiceRolls) = 4

\* the die faces a notation denotes
FacesOf(expr) == Atoi(diceRegex(TrimSpace(ToLower(expr))).sides)

\* C4: every die value of a successful roll, through the builder (DiceRolls)
\* and through the notation entry point (Result.Rolls), lies in [1, dieFaces].
C4_RangeInvariant ==
    /\ RollOk =>
         \A i \in 1..Len(ret.outcome.DiceRolls) :
             ret.outcome.DiceRolls[i] \in 1..rb.dieFaces
    /\ NotationOk =>
         \A i \in 1..Len(ret.result.Rolls) :
             ret.result.Rolls[i] \in 1..FacesOf(ret.expr)

\* a builder roll of six-sided dice showing both ends of the range
C4_Witness ==
    /\ RollOk /\ rb.dieFaces = 6
    /\ \E i, j \in 1..Len(ret.outcome.DiceRolls) :
           ret.outcome.DiceRolls[i] = 1 /\ ret.outcome.DiceRolls[j] = 6

C6_FailedRollDrawsNothing ==
    /\ [](ret.op = "Roll" =>
            ((ret.err # "nil") <=> (rb.rollCount = 0 \/ rb.dieFaces = 0)))
    /\ [][(ret'.op = "Roll" /\ ret'.err # "nil") =>
            (rng' = rng /\ ret'.outcome = ZeroOutcome /\ ret'.draws = 0)]_vars

\* a failed Roll of dice without faces on a Roller that has rolled before
C6_Witness ==
    /\ ret.op = "Roll" /\ ret.err # "nil"
    /\ rb.rollCount > 0 /\ rb.dieFaces = 0
    /\ \A seed \in Seeds : rng[1] # NewSource(seed)

\* C7: every outcome returned, by Roll and by D100SkillCheck, has Value equal
\* to the dice selected for the total plus the values of the modifiers that
\* were handed to the formatter and are shown in Detail.
C7_OutcomeRecomputable ==
    (RollOk \/ D100Ok) =>
        ret.outcome.Value =
            SumSeq(IF D100Ok THEN ret.outcome.DiceRolls
                   ELSE SelectedDice(rb.advantageType, ret.outcome.DiceRolls))
              + SumValues(ret.mods)

\* C8: the d100 result is tens*10 + ones with 0 read as 100, so it lies in
\* [1, 100]; the check succeeds exactly when the result is at most the target
\* attribute, and a target of 100 always succeeds.
C8_D100Result ==
    D100Ok =>
        LET raw == ret.tens * 10 + ret.ones
        IN  /\ ret.tens \in 0..9 /\ ret.ones \in 0..9
            /\ ret.outcome.Value = (IF raw = 0 THEN 100 ELSE raw)
            /\ ret.outcome.Value \in 1..100
            /\ ret.outcome.DiceRolls = <<ret.outcome.Value>>
            /\ ret.target = actor.attributes[ToLower(ret.skill)]
            /\ ret.success <=> (ret.outcome.Value <= ret.target)
            /\ (ret.target = 100) => ret.success

\* the digits 0 and 0 read as 100 against a target of 100
C8_Witness ==
    /\ D100Ok
    /\ ret.tens = 0 /\ ret.ones = 0 /\ ret.outcome.Value = 100
    /\ ret.target = 100 /\ ret.success

\* C9: with bonus level b the check draws 1 + |b| tens digits and then one
\* ones digit, each in [0, 9], and nothing else; the tens digit used is the
\* single draw for b = 0, the lowest draw for b > 0, the highest for b < 0.
C9_D100Draws ==
    D100Ok =>
        LET k == 1 + (IF ret.bonus < 0 THEN -ret.bonus ELSE ret.bonus)
        IN  /\ ret.draws = k + 1
            /\ rng[ret.roller] = StepN(ret.before, k + 1)
            /\ Len(ret.drawn) = k
            /\ \A i \in 1..k : ret.drawn[i] = DrawAt(ret.before, i, 10)
            /\ \A i \in 1..k : ret.drawn[i] \in 0..9
            /\ ret.ones = DrawAt(ret.before, k + 1, 10)
            /\ ret.tens = (IF ret.bonus = 0 THEN ret.drawn[1]
                           ELSE IF ret.bonus > 0 THEN MinOf(ret.drawn)
                           ELSE MaxOf(ret.drawn))

\* two bonus dice where the lowest tens digit is the second of three draws
C9_Witness ==
    /\ D100Ok /\ ret.bonus = 2
    /\ ret.drawn[2] < ret.drawn[1] /\ ret.drawn[2] < ret.drawn[3]
    /\ ret.tens = ret.drawn[2]

\* C10: D100SkillCheck and SkillCheck fail exactly when the skill is not among
\* the actor's attributes; the failed call returns success = false, the zero
\* outcome and no builder, draws nothing and leaves the actor as it was.
C10_MissingSkill ==
    /\ [](ret.op \in {"D100SkillCheck", "SkillCheck"} =>
            ((ret.err # "nil") <=> (ToLower(ret.skill) \notin DOMAIN actor.attributes)))
    /\ [][(ret'.op \in {"D100SkillCheck", "SkillCheck"} /\ ret'.err # "nil") =>
            /\ ret'.success = FALSE
            /\ ret'.outcome = ZeroOutcome
            /\ ret'.builder = NoBuilder
            /\ ret'.draws = 0
            /\ rng' = rng
            /\ actor' = actor]_vars

\* a d100 check of a missing skill on an actor that has other attributes
C10_Witness ==
    /\ ret.op = "D100SkillCheck" /\ ret.err # "nil"
    /\ DOMAIN actor.attributes # {}
    /\ \A seed \in Seeds : rng[1] # NewSource(seed)

(***************************************************************************)
(* Dice notation.                                                          *)
(***************************************************************************)
AllDigits(s) == Len(s) > 0 /\ \A i \in 1..Len(s) : IsDigit(s[i])

\* e without its surrounding whitespace and in lower case
Canon(e) ==
    LET idx == { i \in 1..Len(e) : ~IsSpace(e[i]) }
    IN  IF idx = {} THEN <<>>
        ELSE LET lo == CHOOSE i \in idx : \A j \in idx : i <= j
                 hi == CHOOSE i \in idx : \A j \in idx : i >= j
             IN  [k \in 1..(hi - lo + 1) |-> LowerChar(e[lo + k - 1])]

\* the ways to read e as  [count] "d" faces [("+" | "-") modifier] :
\* the digits of the count (none for the shorthand), the digits of the
\* faces, and the modifier term
GrammarParses(e) ==
    { p \in { [count |-> SubSeq(e, 1, i - 1), faces |-> SubSeq(e, i + 1, j),
               term  |-> SubSeq(e, j + 1, Len(e))] : i \in 1..Len(e), j \in 1..Len(e) } :
        /\ e[Len(p.count) + 1] = "d"
        /\ (p.count = <<>> \/ AllDigits(p.count))
        /\ AllDigits(p.faces)
        /\ (p.term = <<>> \/ (p.term[1] \in {"+", "-"} /\ AllDigits(Tail(p.term)))) }

TermValue(term) ==
    IF term = <<>> THEN 0
    ELSE IF term[1] = "-" THEN -Atoi(Tail(term)) ELSE Atoi(Tail(term))

\* C11: an expression with the dice count omitted ("dS", "dS+M", "dS-M",
\* S >= 1) is accepted as one die of S faces plus the signed modifier: no
\* error, exactly one draw, one die value, Total = die + modifier.
C11_ShorthandAccepted ==
    ret.op = "RollNotation" =>
        \A p \in GrammarParses(Canon(ret.expr)) :
            (p.count = <<>> /\ Atoi(p.faces) >= 1) =>
                /\ ret.err = "nil"
                /\ ret.draws = 1
                /\ ret.result.Rolls = <<DrawAt(ret.before, 1, Atoi(p.faces)) + 1>>
                /\ ret.result.Total = ret.result.Rolls[1] + TermValue(p.term)

\* C12: an expression outside the grammar (no "d", no faces, faces that are
\* not digits, empty, two modifier terms), a dice count below 1 and die
\* faces below 1 all give an error, the zero Result, no draw and an
\* unchanged generator.
C12_InvalidRejected ==
    ret.op = "RollNotation" =>
        LET ps == GrammarParses(Canon(ret.expr))
        IN  (\/ ps = {}
             \/ \E p \in ps : (p.count # <<>> /\ Atoi(p.count) < 1) \/ Atoi(p.faces) < 1)
            => /\ ret.err # "nil"
               /\ ret.result = ZeroResult
               /\ ret.draws = 0
               /\ rng[ret.roller] = ret.before

\* two modifier terms rejected by a Roller that has rolled before
C12_Witness ==
    /\ ret.op = "RollNotation"
    /\ ret.expr = <<"1","d","6","+","3","+","2">>
    /\ ret.err = "invalid dice expression"
    /\ ret.before \notin { NewSource(seed) : seed \in Seeds }
    /\ rng[1] = ret.before

\* C13: Roll(e) returns what Roll of e trimmed and lowercased returns on a
\* Roller in the same state: same error, same Result, same draws, same
\* generator state afterwards.
C13_TrimCaseInvariant ==
    ret.op = "RollNotation" =>
        LET c == roll(Gen(ret.before), Canon(ret.expr))
        IN  /\ ret.err = c.err
            /\ ret.result = c.result
            /\ ret.draws = c.g.n
            /\ rng[ret.roller] = c.g.s

\* an expression in upper case with whitespace around it rolls like "1d6+5"
C13_Witness ==
    /\ ret.op = "RollNotation"
    /\ ret.expr = <<"\t","1","D","6","+","5","\n">>
    /\ ret.err = "nil"
    /\ Len(ret.result.Rolls) = 1
    /\ ret.result.Total = ret.result.Rolls[1] + 5

(***************************************************************************)
(* The Detail string.                                                      *)
(***************************************************************************)
\* the clauses of the canonical format joined with "; " :
\* "Rolled {count}d{faces}... values {v1}, {v2}; {+/-}{val} {reason}, ...;
\* *Result: {final}*", the two middle clauses left out when empty
CanonicalDetail(count, faces, rolls, mods, final) ==
    LET head   == <<"R","o","l","l","e","d"," ">> \o Itoa(count) \o <<"d">>
                    \o Itoa(faces) \o <<".",".",".">>
        values == IF Len(rolls) = 0 THEN <<>>
                  ELSE <<" ","v","a","l","u","e","s"," ">>
                         \o Join([i \in 1..Len(rolls) |-> Itoa(rolls[i])], <<",", " ">>)
        modcl  == IF Len(mods) = 0 THEN <<>>
                  ELSE <<";", " ">>
                         \o Join([i \in 1..Len(mods) |-> FormatModifier(mods[i])],
                                 <<",", " ">>)
    IN  head \o values \o modcl
          \o <<";"," ","*","R","e","s","u","l","t",":"," ">> \o Itoa(final) \o <<"*">>

\* C14: the Detail of a successful roll is the header, the clause
\* "values v1, v2, ..." with every DiceRolls entry in order, the modifiers
\* clause with every modifier in insertion order when there is one, and the
\* result clause last.
C14_DetailClauses ==
    RollOk =>
        ret.outcome.Detail =
            CanonicalDetail(rb.rollCount, rb.dieFaces, ret.outcome.DiceRolls,
                            rb.modifiers, ret.outcome.Value)

(***************************************************************************)
(* The Actor.                                                              *)
(***************************************************************************)
\* C15: whatever SubHP, AddHP, ResetHP, SetHP and SetMaxHP calls were made,
\* with whatever integer arguments, 0 <= currentHP <= maxHP.
C15_HPInRange ==
    actor # NilActor => (0 <= actor.currentHP /\ actor.currentHP <= actor.maxHP)

\* C16: SetHP(h) with h < 0 or h > maxHP, SetMaxHP(m) with m <= 0 and
\* SetAC(a) with a <= 0 return an error and leave every field of the actor
\* as it was.
C16_FailedSetterKeepsState ==
    [][ ( \/ ret'.op = "SetHP" /\ (ret'.arg < 0 \/ ret'.arg > actor.maxHP)
          \/ ret'.op = "SetMaxHP" /\ ret'.arg <= 0
          \/ ret'.op = "SetAC" /\ ret'.arg <= 0 )
        => (ret'.err # "nil" /\ actor' = actor) ]_vars

\* SetHP above the maximum was refused on an actor that is neither at 0 nor
\* at full hit points
C16_Witness ==
    /\ ret.op = "SetHP" /\ ret.arg > actor.maxHP /\ ret.err # "nil"
    /\ 0 < actor.currentHP /\ actor.currentHP < actor.maxHP

C18_SetMaxHP ==
    [][ (ret'.op = "SetMaxHP" /\ ret'.arg > 0) =>
            /\ ret'.err = "nil"
            /\ actor' = [actor EXCEPT
                            !.maxHP = ret'.arg,
                            !.currentHP = IF actor.currentHP > ret'.arg
                                          THEN ret'.arg ELSE actor.currentHP] ]_vars

\* the maximum was raised above a current HP that stayed where it was
C18_Witness ==
    /\ ret.op = "SetMaxHP" /\ ret.err = "nil" /\ ret.arg = actor.maxHP
    /\ 0 < actor.currentHP /\ actor.currentHP < actor.maxHP

\* C19: IsKnockedOut returns true exactly when currentHP <= 0, in every
\* state the hit point operations lead to.
C19_KnockedOutIff ==
    ret.op = "IsKnockedOut" => (ret.success <=> actor.currentHP <= 0)

\* C20: no operation on the ActorBuilder after Build, and no write to the
\* slice GetCombatModifiers returned, changes the attributes or the combat
\* modifiers of the actor.
C20_ExclusiveOwnership ==
    [][ (/\ actor # NilActor
         /\ ret'.op \in {"NewActor", "WithAttribute", "WithCombatModifier",
                         "WriteReturned"})
        => /\ actor' # NilActor
           /\ actor'.attributes = actor.attributes
           /\ actor'.combatModifiers = actor.combatModifiers ]_vars

(***************************************************************************)
(* The Actor's rolls.                                                      *)
(***************************************************************************)
\* s with every letter in lower case
Lowered(s) == [i \in 1..Len(s) |-> LowerChar(s[i])]

C22_AttackRoll ==
    /\ [](ret.op = "AttackRoll" =>
            rb = [rollCount |-> 1, dieFaces |-> 20,
                  modifiers |-> actor.combatModifiers,
                  roller |-> ret.roller, advantageType |-> "Normal"])
    /\ [](RollOk =>
            /\ Len(ret.used) = 1
            /\ ret.outcome.Value = ret.used[1] + SumValues(rb.modifiers))
    /\ [][ret'.op = "AttackRoll" => (actor' = actor /\ rng' = rng)]_vars
    /\ [][(ret'.op = "builder" /\ rb # NoBuilder) =>
            /\ actor' = actor
            /\ SubSeq(rb'.modifiers, 1, Len(rb.modifiers)) = rb.modifiers
            /\ Len(rb'.modifiers) <= Len(rb.modifiers) + 1]_vars

\* an attack with the combat modifier +3 str and the situational +2
\* flanking, rolled by an actor that still has the one combat modifier
C22_Witness ==
    /\ RollOk
    /\ actor.combatModifiers = << [Value |-> 3, Reason |-> <<"s","t","r">>] >>
    /\ rb.modifiers = actor.combatModifiers
                        \o << [Value |-> 2,
                               Reason |-> <<"f","l","a","n","k","i","n","g">>] >>
    /\ ret.outcome.Value = ret.used[1] + 5

\* the positions of mods whose reason is not `reason` in any letter case
KeptAt(mods, reason) == { i \in 1..Len(mods) : mods[i].Reason # Lowered(reason) }

\* C23: RemoveCombatModifier(reason) leaves exactly the modifiers whose
\* reason differs from the given one (compared without regard to case), in
\* their former order and with their values; every duplicate goes; with no
\* match the list, and the rest of the actor, is as before.
C23_RemoveCombatModifier ==
    [][ ret'.op = "RemoveCombatModifier" =>
          LET old  == actor.combatModifiers
              new  == actor'.combatModifiers
              keep == KeptAt(old, ret'.key)
          IN  /\ Len(new) = Cardinality(keep)
              /\ \A i \in keep : new[Cardinality({ j \in keep : j <= i })] = old[i]
              /\ actor' = [actor EXCEPT !.combatModifiers = new]
              /\ (keep = 1..Len(old)) => actor' = actor ]_vars

\* both "bless" modifiers removed from before and between two "str"
\* modifiers of different value, which keep their order
C23_Witness ==
    /\ ret.op = "RemoveCombatModifier"
    /\ Len(ret.mods) = 4
    /\ ret.mods[1].Reason = <<"b","l","e","s","s">>
    /\ ret.mods[3].Reason = <<"b","l","e","s","s">>
    /\ actor.combatModifiers = << [Value |-> 3, Reason |-> <<"s","t","r">>],
                                  [Value |-> 1, Reason |-> <<"s","t","r">>] >>

\* the spellings of key that differ from it in letter case only
CaseVariants(key) == { k \in KeyVariants : Lowered(k) = Lowered(key) }

\* the value the actor a holds under key, 0 when it holds none
Held(a, key) ==
    IF Lowered(key) \in DOMAIN a.attributes THEN a.attributes[Lowered(key)] ELSE 0

\* C24: every stored key is in lower case, so two spellings never make two
\* entries; after SetAttribute, IncrementAttribute, DecrementAttribute or
\* the builder's WithAttribute on k, Attribute(k') returns the value written
\* with exists = true and HasAttribute(k') is true for every spelling k' of
\* k; after RemoveAttribute(k) every spelling is absent.
C24_CaseInsensitiveKeys ==
    /\ [](actor # NilActor =>
            \A k \in DOMAIN actor.attributes : k = Lowered(k))
    /\ [](ret.op = "SetAttribute" =>
            \A k \in CaseVariants(ret.key) :
                /\ Attribute(actor, k) = [value |-> ret.arg, exists |-> TRUE]
                /\ HasAttributeOp(actor, k))
    /\ [](ret.op = "RemoveAttribute" =>
            \A k \in CaseVariants(ret.key) :
                /\ Attribute(actor, k) = [value |-> 0, exists |-> FALSE]
                /\ ~HasAttributeOp(actor, k))
    /\ [](ret.op \in {"Attribute", "HasAttribute"} =>
            /\ ret.success <=> (Lowered(ret.key) \in DOMAIN actor.attributes)
            /\ ret.op = "Attribute" => ret.arg = Held(actor, ret.key))
    /\ [][ret'.op \in {"IncrementAttribute", "DecrementAttribute"} =>
            \A k \in CaseVariants(ret'.key) :
                /\ Attribute(actor', k).exists /\ HasAttributeOp(actor', k)
                /\ Attribute(actor', k).value =
                      Held(actor, ret'.key)
                        + (IF ret'.op = "IncrementAttribute" THEN ret'.arg
                           ELSE -ret'.arg)]_vars
    /\ [][ret'.op = "WithAttribute" =>
            \A k \in DOMAIN ab'.attributes : k = Lowered(k)]_vars

\* a value written as "STEALTH" is read back as "Stealth" and as "stealth"
\* from a map with the one entry "stealth"
C24_Witness ==
    /\ ret.op = "SetAttribute" /\ ret.key = <<"S","T","E","A","L","T","H">>
    /\ ret.arg = 2
    /\ DOMAIN actor.attributes = { <<"s","t","e","a","l","t","h">> }
    /\ Attribute(actor, <<"S","t","e","a","l","t","h">>).value = 2
    /\ Attribute(actor, <<"s","t","e","a","l","t","h">>).exists

\* only lower-case letters, digits and underscores, no underscore at either
\* end and no two underscores in a row
CanonicalID(s) ==
    /\ \A i \in 1..Len(s) :
          \/ s[i] = "_"
          \/ \E n \in 1..26 : LowerChars[n] = s[i]
          \/ \E n \in 1..10 : DigitChars[n] = s[i]
    /\ Len(s) > 0 => (s[1] # "_" /\ s[Len(s)] # "_")
    /\ \A i \in 1..(Len(s) - 1) : ~(s[i] = "_" /\ s[i + 1] = "_")

\* C25: the id NewActor stores for the name x is normalize(x); it is
\* canonical and normalizing it again returns it unchanged; the actor built
\* has that id, and no later operation changes the id of an actor.
C25_NormalizedID ==
    /\ [](ret.op = "NewActor" =>
            /\ ab.id = normalizeID(ret.key)
            /\ normalizeID(normalizeID(ret.key)) = normalizeID(ret.key)
            /\ CanonicalID(ab.id))
    /\ [](actor # NilActor => CanonicalID(actor.id) /\ normalizeID(actor.id) = actor.id)
    /\ [](ret.op = "Build" /\ ret.err = "nil" => actor.id = ab.id)
    /\ [][(actor # NilActor /\ ret'.op # "Build") =>
            (actor' # NilActor /\ actor'.id = actor.id)]_vars

\* an actor whose id has an underscore between two characters, made from
\* some longer name, after a later operation on it
C25_Witness ==
    /\ ret.op = "SetAttribute"
    /\ heap.attrsShared
    /\ actor.id = <<"a", "_", "1">>

(***************************************************************************)
(* Concurrent callers.                                                     *)
(***************************************************************************)
\* the dice a caller gets from a Roller started in state s when k draws
\* were made on that Roller before its call
SerialDice(s, k) == [i \in 1..ConcDice |-> DrawAt(s, k + i, ConcFaces) + 1]

\* C26: with a Roller of its own, what a caller has drawn so far is the
\* beginning of the dice its Roller gives in a run alone, whatever the other
\* caller has done; on a shared Roller nothing of the kind holds, and there
\* are schedules (C26_Witness) that give a caller dice of no serialized order.
C26_PrivateRollerIndependent ==
    (conc # NoCallers /\ ~conc.shared) =>
        \A c \in Callers :
            conc.dice[c] = SubSeq(SerialDice(conc.start[c], 0), 1, Len(conc.dice[c]))

\* both callers are done on the shared Roller and caller 1 holds dice that
\* it gets in neither serialized order: not draws 1..2 and not draws 3..4
C26_Witness ==
    /\ conc # NoCallers
    /\ conc.shared
    /\ \A c \in Callers : ~Rolling(c) /\ ~conc.loaded[c]
    /\ conc.dice[1] # SerialDice(conc.start[1], 0)
    /\ conc.dice[1] # SerialDice(conc.start[1], ConcDice)

(***************************************************************************)
(* Bonus and penalty dice.                                                 *)
(***************************************************************************)
\* C27: for every target the share of digit tuples that succeed with a
\* bonus die is at least the share that succeed with no bonus, which is at
\* least the share that succeed with a penalty die (shares compared by
\* cross-multiplying the counts with the numbers of tuples).
C27_BonusMonotone ==
    ret.op = "D100Odds" =>
        LET normal == D100Successes(ret.target, 0)
            tuples == Cardinality(D100Draws(0))
        IN  /\ ret.bonus > 0 => ret.arg * tuples >= normal * ret.draws
            /\ ret.bonus < 0 => ret.arg * tuples <= normal * ret.draws

\* the mode a builder is in after a step that returned `r`, when it was in
\* mode `before`: the last of WithAdvantage, WithDisadvantage and Normal
\* decides, Dice starts in Normal, and every other call keeps the mode
ModeAfter(r, before) ==
    IF r.op # "builder" THEN before
    ELSE CASE r.call = "Dice"             -> "Normal"
           [] r.call = "WithAdvantage"    -> "Advantage"
           [] r.call = "WithDisadvantage" -> "Disadvantage"
           [] r.call = "Normal"           -> "Normal"
           [] OTHER                       -> before

\* C28: a builder's mode is the one set by the latest of WithAdvantage,
\* WithDisadvantage and Normal, Normal after Dice, and unchanged by
\* WithModifier, WithModifiers and Roll; a Roll in Normal mode draws
\* exactly rollCount dice and returns their sum plus the modifiers, a Roll
\* in another mode draws two per die.
C28_LatestModeWins ==
    /\ [][rb' # NoBuilder => rb'.advantageType = ModeAfter(ret', rb.advantageType)]_vars
    /\ [](RollOk =>
            IF rb.advantageType = "Normal"
            THEN /\ ret.draws = rb.rollCount
                 /\ Len(ret.outcome.DiceRolls) = rb.rollCount
                 /\ ret.outcome.Value = SumSeq(ret.outcome.DiceRolls)
                                          + ModifierTotal(rb.modifiers)
            ELSE /\ ret.draws = 2 * rb.rollCount
                 /\ Len(ret.outcome.DiceRolls) = 2 * rb.rollCount)

\* a builder put back to Normal with a modifier added is rolled: two dice,
\* two draws
C28_Witness ==
    /\ RollOk
    /\ rb.advantageType = "Normal"
    /\ rb.rollCount = 2
    /\ Len(rb.modifiers) = 1
    /\ ret.draws = 2
    /\ Len(ret.outcome.DiceRolls) = 2

\* C29: Roll leaves the builder as it was; WithModifier and WithModifiers
\* append to the modifier list of the same builder and the mode calls change
\* only the mode, so each Roll is computed from everything applied before
\* it, and a Roll that follows a Roll has the same modifiers, the same
\* number of dice and the same modifier total.
C29_RollKeepsBuilder ==
    /\ [][ret'.op = "Roll" => rb' = rb]_vars
    /\ [][(ret'.op = "builder" /\ ret'.call # "Dice") =>
            /\ rb'.roller = rb.roller
            /\ rb'.rollCount = rb.rollCount
            /\ rb'.dieFaces = rb.dieFaces
            /\ IF ret'.call \in {"WithModifier", "WithModifiers"}
               THEN /\ rb'.advantageType = rb.advantageType
                    /\ Len(rb'.modifiers) >= Len(rb.modifiers)
                    /\ ret'.call = "WithModifier" =>
                           Len(rb'.modifiers) = Len(rb.modifiers) + 1
                    /\ SubSeq(rb'.modifiers, 1, Len(rb.modifiers)) = rb.modifiers
               ELSE rb'.modifiers = rb.modifiers]_vars
    /\ [](RollOk =>
            /\ ret.mods = rb.modifiers
            /\ ret.outcome.Value = SumSeq(ret.used) + ModifierTotal(rb.modifiers)
            /\ ret.outcome = RollBuilderRoll(rb, Gen(ret.before)).outcome)
    /\ [][(RollOk /\ ret'.op = "Roll") =>
            /\ ret'.err = "nil"
            /\ ret'.mods = ret.mods
            /\ Len(ret'.outcome.DiceRolls) = Len(ret.outcome.DiceRolls)
            /\ ret'.outcome.Value - SumSeq(ret'.used)
                   = ret.outcome.Value - SumSeq(ret.used)]_vars

\* a roll with advantage and two modifiers on a generator that has been
\* drawn from before
C29_Witness ==
    /\ RollOk
    /\ rb.advantageType = "Advantage"
    /\ Len(rb.modifiers) = 2
    /\ ret.mods = rb.modifiers
    /\ \A seed \in Seeds : ret.before # NewSource(seed)

\* the builder b in another mode and with another number of dice
Reconfigured(b, mode, count) ==
    [b EXCEPT !.advantageType = mode, !.rollCount = count]

\* C30: a successful Advantage or Disadvantage roll of N dice returns the
\* DiceRolls a Normal roll of 2N dice of the same faces returns from the
\* same generator state and leaves the generator where that roll leaves it;
\* the Advantage and the Disadvantage roll of the same request have the
\* same DiceRolls and the Advantage Value is at least the Disadvantage Value.
C30_ModesShareDraws ==
    (RollOk /\ rb.advantageType # "Normal") =>
        LET before == Gen(ret.before)
            normal == RollBuilderRoll(Reconfigured(rb, "Normal", 2 * rb.rollCount), before)
            adv    == RollBuilderRoll(Reconfigured(rb, "Advantage", rb.rollCount), before)
            dis    == RollBuilderRoll(Reconfigured(rb, "Disadvantage", rb.rollCount), before)
        IN  /\ normal.err = "nil"
            /\ ret.outcome.DiceRolls = normal.outcome.DiceRolls
            /\ rng[ret.roller] = normal.g.s
            /\ ret.draws = normal.g.n
            /\ ret.outcome = (IF rb.advantageType = "Advantage" THEN adv ELSE dis).outcome
            /\ adv.outcome.DiceRolls = dis.outcome.DiceRolls
            /\ adv.g = dis.g
            /\ adv.outcome.Value >= dis.outcome.Value

\* a Disadvantage roll of two six-sided dice whose pairs both rise, so the
\* Advantage roll of the same request is worth more
C30_Witness ==
    /\ RollOk
    /\ rb.advantageType = "Disadvantage" /\ rb.rollCount = 2 /\ rb.dieFaces = 6
    /\ Len(ret.outcome.DiceRolls) = 4
    /\ ret.outcome.DiceRolls[1] < ret.outcome.DiceRolls[2]
    /\ ret.outcome.DiceRolls[3] < ret.outcome.DiceRolls[4]
    /\ ret.outcome.Value <
           RollBuilderRoll(Reconfigured(rb, "Advantage", 2), Gen(ret.before)).outcome.Value

====
